---- MODULE Spec2Model ----
(***************************************************************************)
(* Model of the invoice packaging pipeline of src/app.py: parse_cfdi,      *)
(* normalize_name, the upload/parse/sort/label/match script, the review    *)
(* table and the "Build Submission Package" button handler.                *)
(*                                                                         *)
(* Text is modelled as a sequence of characters, each character a token    *)
(* ("a", ".", "U+00E5"), so that basename, splitext,                       *)
(* lower-casing, the regular-expression collapse and substring search are  *)
(* computed character by character as the code computes them. Amounts are  *)
(* binary64 floats, a sign and an odd mantissa times a power of two, and   *)
(* float() and the addition of floats are computed bit by bit.             *)
(* The sort by Fecha is pandas' default, numpy's introsort, computed swap   *)
(* by swap on the array of row positions.                                  *)
(***************************************************************************)
EXTENDS Integers, Sequences, FiniteSets, TLC

VARIABLES
    xml_up,     \* uploaded structured documents, in upload order: [name, doc]
    pdf_up,     \* uploaded scans, in upload order: [name, data]
    carnet_up,  \* the file in the carnet uploader, if any: [present, size]
    rows,       \* the list the parse loop fills, one dictionary per document
    df_index,   \* index of df after sort_values, before reset_index
    df,         \* the sorted, labelled and matched table shown for review
    edited,     \* what st.data_editor returns: df[show_cols] with the edits
    nedits,     \* number of edits made so far
    built,      \* whether the build button handler has run on this table
    build_error,  \* whether the handler ended in an exception instead
    tmp_index,  \* index of tmp after sort_values, before reset_index
    tmp,        \* the handler's re-sorted, re-labelled copy of edited
    xlsx,       \* the rows written to SUBMISSION_IVA_FORM.xlsx
    zip,        \* the archive's entries in writing order: [name, data]
    missing_pdfs_detail,  \* [rownum, nstem] of the rows left without a PDF
    warnings,   \* the warnings shown after the build
    pdoc,       \* a document handed to parse_cfdi on its own
    prec,       \* what parse_cfdi returned for it
    nname,      \* two file names handed to normalize_name on their own
    nkey,       \* what normalize_name returned for each of them
    sfecha,     \* a table handed to sort_values on its own: its Fecha column
    sindex      \* the index sort_values gave it, before reset_index

vars == <<xml_up, pdf_up, carnet_up, rows, df_index, df, edited, nedits,
          built, build_error, tmp_index, tmp, xlsx, zip, missing_pdfs_detail, warnings,
          pdoc, prec, nname, nkey, sfecha, sindex>>

pipeVars == <<xml_up, pdf_up, carnet_up, rows, df_index, df, edited, nedits,
              built, build_error, tmp_index, tmp, xlsx, zip, missing_pdfs_detail, warnings>>

buildVars == <<built, build_error, tmp_index, tmp, xlsx, zip, missing_pdfs_detail, warnings>>

parseVars == <<pdoc, prec>>

normVars == <<nname, nkey>>

sortVars == <<sfecha, sindex>>

-----------------------------------------------------------------------------
(* Bounds of the model. *)

\* Largest number of structured documents in one upload.
MaxXml == 2
\* Largest number of scanned documents in one upload.
MaxPdf == 2
\* Largest number of edits made in the review table before a build.
MaxEdits == 2
\* Largest number of tax-transfer entries in a document given to parse_cfdi.
MaxTraslados == 3

-----------------------------------------------------------------------------
(* Text helpers. *)

\* Python None in a text cell of the review table that was never filled in.
None == <<"<None>">>

\* str(v) of a text cell.
Str(v) == IF v = None THEN <<"N","o","n","e">> ELSE v

\* (v or "") of a text cell.
OrEmpty(v) == IF v = None THEN <<>> ELSE v

UpperLetters ==
    {"A","B","C","D","E","F","G","H","I","J","K","L","M",
     "N","O","P","Q","R","S","T","U","V","W","X","Y","Z"}

LowerLetters ==
    {"a","b","c","d","e","f","g","h","i","j","k","l","m",
     "n","o","p","q","r","s","t","u","v","w","x","y","z"}

DigitChars == {"0","1","2","3","4","5","6","7","8","9"}

Whitespace ==
    { "\t", "\n", "U+000B", "U+000C", "U+000D", "U+001C", "U+001D",
      "U+001E", "U+001F", " ", "U+0085", "U+00A0", "U+1680", "U+2000",
      "U+2001", "U+2002", "U+2003", "U+2004", "U+2005", "U+2006", "U+2007",
      "U+2008", "U+2009", "U+200A", "U+2028", "U+2029", "U+202F", "U+205F",
      "U+3000" }

LowerTable ==
    [c \in UpperLetters |->
        CASE c = "A" -> "a" [] c = "B" -> "b" [] c = "C" -> "c" [] c = "D" -> "d"
          [] c = "E" -> "e" [] c = "F" -> "f" [] c = "G" -> "g" [] c = "H" -> "h"
          [] c = "I" -> "i" [] c = "J" -> "j" [] c = "K" -> "k" [] c = "L" -> "l"
          [] c = "M" -> "m" [] c = "N" -> "n" [] c = "O" -> "o" [] c = "P" -> "p"
          [] c = "Q" -> "q" [] c = "R" -> "r" [] c = "S" -> "s" [] c = "T" -> "t"
          [] c = "U" -> "u" [] c = "V" -> "v" [] c = "W" -> "w" [] c = "X" -> "x"
          [] c = "Y" -> "y" [] c = "Z" -> "z"]

\* str.lower() of the cased characters outside A-Z that the alphabet holds;
\* U+0130 lower-cases to two characters.
LowerOther ==
    ("U+00C1" :> <<"U+00E1">>) @@ ("U+00C3" :> <<"U+00E3">>) @@
    ("U+00C4" :> <<"U+00E4">>) @@ ("U+00C5" :> <<"U+00E5">>) @@
    ("U+00C9" :> <<"U+00E9">>) @@ ("U+00CB" :> <<"U+00EB">>) @@
    ("U+00CD" :> <<"U+00ED">>) @@ ("U+00CF" :> <<"U+00EF">>) @@
    ("U+00D1" :> <<"U+00F1">>) @@ ("U+00D3" :> <<"U+00F3">>) @@
    ("U+00D5" :> <<"U+00F5">>) @@ ("U+00D6" :> <<"U+00F6">>) @@
    ("U+00DA" :> <<"U+00FA">>) @@ ("U+00DC" :> <<"U+00FC">>) @@
    ("U+00DD" :> <<"U+00FD">>) @@ ("U+0106" :> <<"U+0107">>) @@
    ("U+010A" :> <<"U+010B">>) @@ ("U+0116" :> <<"U+0117">>) @@
    ("U+0120" :> <<"U+0121">>) @@ ("U+0128" :> <<"U+0129">>) @@
    ("U+0130" :> <<"i", "U+0307">>) @@ ("U+0139" :> <<"U+013A">>) @@
    ("U+0143" :> <<"U+0144">>) @@ ("U+0154" :> <<"U+0155">>) @@
    ("U+015A" :> <<"U+015B">>) @@ ("U+0168" :> <<"U+0169">>) @@
    ("U+016E" :> <<"U+016F">>) @@ ("U+0178" :> <<"U+00FF">>) @@
    ("U+0179" :> <<"U+017A">>) @@ ("U+017B" :> <<"U+017C">>) @@
    ("U+01D7" :> <<"U+01D8">>) @@ ("U+01F4" :> <<"U+01F5">>) @@
    ("U+01FA" :> <<"U+01FB">>) @@ ("U+0226" :> <<"U+0227">>) @@
    ("U+022E" :> <<"U+022F">>) @@ ("U+1E02" :> <<"U+1E03">>) @@
    ("U+1E0A" :> <<"U+1E0B">>) @@ ("U+1E1E" :> <<"U+1E1F">>) @@
    ("U+1E22" :> <<"U+1E23">>) @@ ("U+1E26" :> <<"U+1E27">>) @@
    ("U+1E2E" :> <<"U+1E2F">>) @@ ("U+1E30" :> <<"U+1E31">>) @@
    ("U+1E3E" :> <<"U+1E3F">>) @@ ("U+1E40" :> <<"U+1E41">>) @@
    ("U+1E44" :> <<"U+1E45">>) @@ ("U+1E4C" :> <<"U+1E4D">>) @@
    ("U+1E4E" :> <<"U+1E4F">>) @@ ("U+1E54" :> <<"U+1E55">>) @@
    ("U+1E56" :> <<"U+1E57">>) @@ ("U+1E58" :> <<"U+1E59">>) @@
    ("U+1E60" :> <<"U+1E61">>) @@ ("U+1E64" :> <<"U+1E65">>) @@
    ("U+1E6A" :> <<"U+1E6B">>) @@ ("U+1E78" :> <<"U+1E79">>) @@
    ("U+1E7C" :> <<"U+1E7D">>) @@ ("U+1E82" :> <<"U+1E83">>) @@
    ("U+1E84" :> <<"U+1E85">>) @@ ("U+1E86" :> <<"U+1E87">>) @@
    ("U+1E8A" :> <<"U+1E8B">>) @@ ("U+1E8C" :> <<"U+1E8D">>) @@
    ("U+1E8E" :> <<"U+1E8F">>) @@ ("U+1EBC" :> <<"U+1EBD">>) @@
    ("U+1EF8" :> <<"U+1EF9">>) @@ ("U+212A" :> <<"k">>) @@
    ("U+212B" :> <<"U+00E5">>) @@ ("U+FF21" :> <<"U+FF41">>)

\* str.lower() on one character: a string of one or two characters.
LowerChar(c) ==
    IF c \in UpperLetters THEN <<LowerTable[c]>>
    ELSE IF c \in DOMAIN LowerOther THEN LowerOther[c]
    ELSE <<c>>

\* str.lower().
RECURSIVE Lower(_)
Lower(s) == IF s = <<>> THEN <<>> ELSE LowerChar(s[1]) \o Lower(Tail(s))

\* Index of the last occurrence of c in s, 0 when there is none (str.rfind + 1).
RFind(s, c) ==
    LET hits == {i \in 1..Len(s) : s[i] = c}
    IN  IF hits = {} THEN 0 ELSE CHOOSE i \in hits : \A j \in hits : j <= i

\* os.path.basename (posix): what follows the last "/".
Basename(p) == SubSeq(p, RFind(p, "/") + 1, Len(p))

\* Where os.path.splitext cuts p: the index of the last "." when it comes after
\* the last "/" and some character between them is not "."; otherwise Len(p)+1.
SplitPoint(p) ==
    LET sepIndex == RFind(p, "/")
        dotIndex == RFind(p, ".")
    IN  IF dotIndex > sepIndex
           /\ \E k \in (sepIndex + 1)..(dotIndex - 1) : p[k] # "."
        THEN dotIndex ELSE Len(p) + 1

\* os.path.splitext(p)[0] and [1].
SplitextStem(p) == SubSeq(p, 1, SplitPoint(p) - 1)
SplitextExt(p) == SubSeq(p, SplitPoint(p), Len(p))

\* A normalization that leaves decomposed letters decomposed.
NFKC_keeps_decomposed(s) == s

\* The full compatibility decomposition of the characters of the alphabet
\* that have one (unicodedata.normalize("NFKD", c)).
Decomposition ==
    ("U+00A0" :> <<" ">>) @@ ("U+00AA" :> <<"a">>) @@
    ("U+00B2" :> <<"2">>) @@ ("U+00C1" :> <<"A", "U+0301">>) @@
    ("U+00C3" :> <<"A", "U+0303">>) @@ ("U+00C4" :> <<"A", "U+0308">>) @@
    ("U+00C5" :> <<"A", "U+030A">>) @@ ("U+00C9" :> <<"E", "U+0301">>) @@
    ("U+00CB" :> <<"E", "U+0308">>) @@ ("U+00CD" :> <<"I", "U+0301">>) @@
    ("U+00CF" :> <<"I", "U+0308">>) @@ ("U+00D1" :> <<"N", "U+0303">>) @@
    ("U+00D3" :> <<"O", "U+0301">>) @@ ("U+00D5" :> <<"O", "U+0303">>) @@
    ("U+00D6" :> <<"O", "U+0308">>) @@ ("U+00DA" :> <<"U", "U+0301">>) @@
    ("U+00DC" :> <<"U", "U+0308">>) @@ ("U+00DD" :> <<"Y", "U+0301">>) @@
    ("U+00E1" :> <<"a", "U+0301">>) @@ ("U+00E3" :> <<"a", "U+0303">>) @@
    ("U+00E4" :> <<"a", "U+0308">>) @@ ("U+00E5" :> <<"a", "U+030A">>) @@
    ("U+00E9" :> <<"e", "U+0301">>) @@ ("U+00EB" :> <<"e", "U+0308">>) @@
    ("U+00ED" :> <<"i", "U+0301">>) @@ ("U+00EF" :> <<"i", "U+0308">>) @@
    ("U+00F1" :> <<"n", "U+0303">>) @@ ("U+00F3" :> <<"o", "U+0301">>) @@
    ("U+00F5" :> <<"o", "U+0303">>) @@ ("U+00F6" :> <<"o", "U+0308">>) @@
    ("U+00FA" :> <<"u", "U+0301">>) @@ ("U+00FC" :> <<"u", "U+0308">>) @@
    ("U+00FD" :> <<"y", "U+0301">>) @@ ("U+00FF" :> <<"y", "U+0308">>) @@
    ("U+0106" :> <<"C", "U+0301">>) @@ ("U+0107" :> <<"c", "U+0301">>) @@
    ("U+010A" :> <<"C", "U+0307">>) @@ ("U+010B" :> <<"c", "U+0307">>) @@
    ("U+0116" :> <<"E", "U+0307">>) @@ ("U+0117" :> <<"e", "U+0307">>) @@
    ("U+0120" :> <<"G", "U+0307">>) @@ ("U+0121" :> <<"g", "U+0307">>) @@
    ("U+0128" :> <<"I", "U+0303">>) @@ ("U+0129" :> <<"i", "U+0303">>) @@
    ("U+0130" :> <<"I", "U+0307">>) @@ ("U+0139" :> <<"L", "U+0301">>) @@
    ("U+013A" :> <<"l", "U+0301">>) @@ ("U+0143" :> <<"N", "U+0301">>) @@
    ("U+0144" :> <<"n", "U+0301">>) @@ ("U+0154" :> <<"R", "U+0301">>) @@
    ("U+0155" :> <<"r", "U+0301">>) @@ ("U+015A" :> <<"S", "U+0301">>) @@
    ("U+015B" :> <<"s", "U+0301">>) @@ ("U+0168" :> <<"U", "U+0303">>) @@
    ("U+0169" :> <<"u", "U+0303">>) @@ ("U+016E" :> <<"U", "U+030A">>) @@
    ("U+016F" :> <<"u", "U+030A">>) @@ ("U+0178" :> <<"Y", "U+0308">>) @@
    ("U+0179" :> <<"Z", "U+0301">>) @@ ("U+017A" :> <<"z", "U+0301">>) @@
    ("U+017B" :> <<"Z", "U+0307">>) @@ ("U+017C" :> <<"z", "U+0307">>) @@
    ("U+01D7" :> <<"U", "U+0308", "U+0301">>) @@
    ("U+01D8" :> <<"u", "U+0308", "U+0301">>) @@
    ("U+01F4" :> <<"G", "U+0301">>) @@ ("U+01F5" :> <<"g", "U+0301">>) @@
    ("U+01FA" :> <<"A", "U+030A", "U+0301">>) @@
    ("U+01FB" :> <<"a", "U+030A", "U+0301">>) @@
    ("U+0226" :> <<"A", "U+0307">>) @@ ("U+0227" :> <<"a", "U+0307">>) @@
    ("U+022E" :> <<"O", "U+0307">>) @@ ("U+022F" :> <<"o", "U+0307">>) @@
    ("U+1E02" :> <<"B", "U+0307">>) @@ ("U+1E03" :> <<"b", "U+0307">>) @@
    ("U+1E0A" :> <<"D", "U+0307">>) @@ ("U+1E0B" :> <<"d", "U+0307">>) @@
    ("U+1E1E" :> <<"F", "U+0307">>) @@ ("U+1E1F" :> <<"f", "U+0307">>) @@
    ("U+1E22" :> <<"H", "U+0307">>) @@ ("U+1E23" :> <<"h", "U+0307">>) @@
    ("U+1E26" :> <<"H", "U+0308">>) @@ ("U+1E27" :> <<"h", "U+0308">>) @@
    ("U+1E2E" :> <<"I", "U+0308", "U+0301">>) @@
    ("U+1E2F" :> <<"i", "U+0308", "U+0301">>) @@
    ("U+1E30" :> <<"K", "U+0301">>) @@ ("U+1E31" :> <<"k", "U+0301">>) @@
    ("U+1E3E" :> <<"M", "U+0301">>) @@ ("U+1E3F" :> <<"m", "U+0301">>) @@
    ("U+1E40" :> <<"M", "U+0307">>) @@ ("U+1E41" :> <<"m", "U+0307">>) @@
    ("U+1E44" :> <<"N", "U+0307">>) @@ ("U+1E45" :> <<"n", "U+0307">>) @@
    ("U+1E4C" :> <<"O", "U+0303", "U+0301">>) @@
    ("U+1E4D" :> <<"o", "U+0303", "U+0301">>) @@
    ("U+1E4E" :> <<"O", "U+0303", "U+0308">>) @@
    ("U+1E4F" :> <<"o", "U+0303", "U+0308">>) @@
    ("U+1E54" :> <<"P", "U+0301">>) @@ ("U+1E55" :> <<"p", "U+0301">>) @@
    ("U+1E56" :> <<"P", "U+0307">>) @@ ("U+1E57" :> <<"p", "U+0307">>) @@
    ("U+1E58" :> <<"R", "U+0307">>) @@ ("U+1E59" :> <<"r", "U+0307">>) @@
    ("U+1E60" :> <<"S", "U+0307">>) @@ ("U+1E61" :> <<"s", "U+0307">>) @@
    ("U+1E64" :> <<"S", "U+0301", "U+0307">>) @@
    ("U+1E65" :> <<"s", "U+0301", "U+0307">>) @@
    ("U+1E6A" :> <<"T", "U+0307">>) @@ ("U+1E6B" :> <<"t", "U+0307">>) @@
    ("U+1E78" :> <<"U", "U+0303", "U+0301">>) @@
    ("U+1E79" :> <<"u", "U+0303", "U+0301">>) @@
    ("U+1E7C" :> <<"V", "U+0303">>) @@ ("U+1E7D" :> <<"v", "U+0303">>) @@
    ("U+1E82" :> <<"W", "U+0301">>) @@ ("U+1E83" :> <<"w", "U+0301">>) @@
    ("U+1E84" :> <<"W", "U+0308">>) @@ ("U+1E85" :> <<"w", "U+0308">>) @@
    ("U+1E86" :> <<"W", "U+0307">>) @@ ("U+1E87" :> <<"w", "U+0307">>) @@
    ("U+1E8A" :> <<"X", "U+0307">>) @@ ("U+1E8B" :> <<"x", "U+0307">>) @@
    ("U+1E8C" :> <<"X", "U+0308">>) @@ ("U+1E8D" :> <<"x", "U+0308">>) @@
    ("U+1E8E" :> <<"Y", "U+0307">>) @@ ("U+1E8F" :> <<"y", "U+0307">>) @@
    ("U+1E97" :> <<"t", "U+0308">>) @@ ("U+1E98" :> <<"w", "U+030A">>) @@
    ("U+1E99" :> <<"y", "U+030A">>) @@ ("U+1EBC" :> <<"E", "U+0303">>) @@
    ("U+1EBD" :> <<"e", "U+0303">>) @@ ("U+1EF8" :> <<"Y", "U+0303">>) @@
    ("U+1EF9" :> <<"y", "U+0303">>) @@ ("U+2000" :> <<" ">>) @@
    ("U+2001" :> <<" ">>) @@ ("U+2002" :> <<" ">>) @@
    ("U+2003" :> <<" ">>) @@ ("U+2004" :> <<" ">>) @@
    ("U+2005" :> <<" ">>) @@ ("U+2006" :> <<" ">>) @@
    ("U+2007" :> <<" ">>) @@ ("U+2008" :> <<" ">>) @@
    ("U+2009" :> <<" ">>) @@ ("U+200A" :> <<" ">>) @@
    ("U+202F" :> <<" ">>) @@ ("U+205F" :> <<" ">>) @@
    ("U+212A" :> <<"K">>) @@ ("U+212B" :> <<"A", "U+030A">>) @@
    ("U+3000" :> <<" ">>) @@ ("U+FB01" :> <<"f", "i">>) @@
    ("U+FF11" :> <<"1">>) @@ ("U+FF21" :> <<"A">>) @@ ("U+FF41" :> <<"a">>)

\* The combining marks of the alphabet. They all have combining class 230, so
\* canonical ordering never moves one past another.
CombiningMarks == {"U+0301", "U+0303", "U+0307", "U+0308", "U+030A"}

\* The primary composites: a starter followed by a mark, and what they compose to.
Composition ==
    (<<"A", "U+0301">> :> "U+00C1") @@ (<<"A", "U+0303">> :> "U+00C3") @@
    (<<"A", "U+0307">> :> "U+0226") @@ (<<"A", "U+0308">> :> "U+00C4") @@
    (<<"A", "U+030A">> :> "U+00C5") @@ (<<"B", "U+0307">> :> "U+1E02") @@
    (<<"C", "U+0301">> :> "U+0106") @@ (<<"C", "U+0307">> :> "U+010A") @@
    (<<"D", "U+0307">> :> "U+1E0A") @@ (<<"E", "U+0301">> :> "U+00C9") @@
    (<<"E", "U+0303">> :> "U+1EBC") @@ (<<"E", "U+0307">> :> "U+0116") @@
    (<<"E", "U+0308">> :> "U+00CB") @@ (<<"F", "U+0307">> :> "U+1E1E") @@
    (<<"G", "U+0301">> :> "U+01F4") @@ (<<"G", "U+0307">> :> "U+0120") @@
    (<<"H", "U+0307">> :> "U+1E22") @@ (<<"H", "U+0308">> :> "U+1E26") @@
    (<<"I", "U+0301">> :> "U+00CD") @@ (<<"I", "U+0303">> :> "U+0128") @@
    (<<"I", "U+0307">> :> "U+0130") @@ (<<"I", "U+0308">> :> "U+00CF") @@
    (<<"K", "U+0301">> :> "U+1E30") @@ (<<"L", "U+0301">> :> "U+0139") @@
    (<<"M", "U+0301">> :> "U+1E3E") @@ (<<"M", "U+0307">> :> "U+1E40") @@
    (<<"N", "U+0301">> :> "U+0143") @@ (<<"N", "U+0303">> :> "U+00D1") @@
    (<<"N", "U+0307">> :> "U+1E44") @@ (<<"O", "U+0301">> :> "U+00D3") @@
    (<<"O", "U+0303">> :> "U+00D5") @@ (<<"O", "U+0307">> :> "U+022E") @@
    (<<"O", "U+0308">> :> "U+00D6") @@ (<<"P", "U+0301">> :> "U+1E54") @@
    (<<"P", "U+0307">> :> "U+1E56") @@ (<<"R", "U+0301">> :> "U+0154") @@
    (<<"R", "U+0307">> :> "U+1E58") @@ (<<"S", "U+0301">> :> "U+015A") @@
    (<<"S", "U+0307">> :> "U+1E60") @@ (<<"T", "U+0307">> :> "U+1E6A") @@
    (<<"U", "U+0301">> :> "U+00DA") @@ (<<"U", "U+0303">> :> "U+0168") @@
    (<<"U", "U+0308">> :> "U+00DC") @@ (<<"U", "U+030A">> :> "U+016E") @@
    (<<"V", "U+0303">> :> "U+1E7C") @@ (<<"W", "U+0301">> :> "U+1E82") @@
    (<<"W", "U+0307">> :> "U+1E86") @@ (<<"W", "U+0308">> :> "U+1E84") @@
    (<<"X", "U+0307">> :> "U+1E8A") @@ (<<"X", "U+0308">> :> "U+1E8C") @@
    (<<"Y", "U+0301">> :> "U+00DD") @@ (<<"Y", "U+0303">> :> "U+1EF8") @@
    (<<"Y", "U+0307">> :> "U+1E8E") @@ (<<"Y", "U+0308">> :> "U+0178") @@
    (<<"Z", "U+0301">> :> "U+0179") @@ (<<"Z", "U+0307">> :> "U+017B") @@
    (<<"a", "U+0301">> :> "U+00E1") @@ (<<"a", "U+0303">> :> "U+00E3") @@
    (<<"a", "U+0307">> :> "U+0227") @@ (<<"a", "U+0308">> :> "U+00E4") @@
    (<<"a", "U+030A">> :> "U+00E5") @@ (<<"b", "U+0307">> :> "U+1E03") @@
    (<<"c", "U+0301">> :> "U+0107") @@ (<<"c", "U+0307">> :> "U+010B") @@
    (<<"d", "U+0307">> :> "U+1E0B") @@ (<<"e", "U+0301">> :> "U+00E9") @@
    (<<"e", "U+0303">> :> "U+1EBD") @@ (<<"e", "U+0307">> :> "U+0117") @@
    (<<"e", "U+0308">> :> "U+00EB") @@ (<<"f", "U+0307">> :> "U+1E1F") @@
    (<<"g", "U+0301">> :> "U+01F5") @@ (<<"g", "U+0307">> :> "U+0121") @@
    (<<"h", "U+0307">> :> "U+1E23") @@ (<<"h", "U+0308">> :> "U+1E27") @@
    (<<"i", "U+0301">> :> "U+00ED") @@ (<<"i", "U+0303">> :> "U+0129") @@
    (<<"i", "U+0308">> :> "U+00EF") @@ (<<"k", "U+0301">> :> "U+1E31") @@
    (<<"l", "U+0301">> :> "U+013A") @@ (<<"m", "U+0301">> :> "U+1E3F") @@
    (<<"m", "U+0307">> :> "U+1E41") @@ (<<"n", "U+0301">> :> "U+0144") @@
    (<<"n", "U+0303">> :> "U+00F1") @@ (<<"n", "U+0307">> :> "U+1E45") @@
    (<<"o", "U+0301">> :> "U+00F3") @@ (<<"o", "U+0303">> :> "U+00F5") @@
    (<<"o", "U+0307">> :> "U+022F") @@ (<<"o", "U+0308">> :> "U+00F6") @@
    (<<"p", "U+0301">> :> "U+1E55") @@ (<<"p", "U+0307">> :> "U+1E57") @@
    (<<"r", "U+0301">> :> "U+0155") @@ (<<"r", "U+0307">> :> "U+1E59") @@
    (<<"s", "U+0301">> :> "U+015B") @@ (<<"s", "U+0307">> :> "U+1E61") @@
    (<<"t", "U+0307">> :> "U+1E6B") @@ (<<"t", "U+0308">> :> "U+1E97") @@
    (<<"u", "U+0301">> :> "U+00FA") @@ (<<"u", "U+0303">> :> "U+0169") @@
    (<<"u", "U+0308">> :> "U+00FC") @@ (<<"u", "U+030A">> :> "U+016F") @@
    (<<"v", "U+0303">> :> "U+1E7D") @@ (<<"w", "U+0301">> :> "U+1E83") @@
    (<<"w", "U+0307">> :> "U+1E87") @@ (<<"w", "U+0308">> :> "U+1E85") @@
    (<<"w", "U+030A">> :> "U+1E98") @@ (<<"x", "U+0307">> :> "U+1E8B") @@
    (<<"x", "U+0308">> :> "U+1E8D") @@ (<<"y", "U+0301">> :> "U+00FD") @@
    (<<"y", "U+0303">> :> "U+1EF9") @@ (<<"y", "U+0307">> :> "U+1E8F") @@
    (<<"y", "U+0308">> :> "U+00FF") @@ (<<"y", "U+030A">> :> "U+1E99") @@
    (<<"z", "U+0301">> :> "U+017A") @@ (<<"z", "U+0307">> :> "U+017C") @@
    (<<"U+00C5", "U+0301">> :> "U+01FA") @@
    (<<"U+00CF", "U+0301">> :> "U+1E2E") @@
    (<<"U+00D5", "U+0301">> :> "U+1E4C") @@
    (<<"U+00D5", "U+0308">> :> "U+1E4E") @@
    (<<"U+00DC", "U+0301">> :> "U+01D7") @@
    (<<"U+00E5", "U+0301">> :> "U+01FB") @@
    (<<"U+00EF", "U+0301">> :> "U+1E2F") @@
    (<<"U+00F5", "U+0301">> :> "U+1E4D") @@
    (<<"U+00F5", "U+0308">> :> "U+1E4F") @@
    (<<"U+00FC", "U+0301">> :> "U+01D8") @@
    (<<"U+015A", "U+0307">> :> "U+1E64") @@
    (<<"U+015B", "U+0307">> :> "U+1E65") @@
    (<<"U+0168", "U+0301">> :> "U+1E78") @@
    (<<"U+0169", "U+0301">> :> "U+1E79") @@
    (<<"U+212A", "U+0301">> :> "U+1E30") @@
    (<<"U+212B", "U+0301">> :> "U+01FA")

DecomposeChar(c) == IF c \in DOMAIN Decomposition THEN Decomposition[c] ELSE <<c>>

RECURSIVE Decompose(_)
Decompose(s) ==
    IF s = <<>> THEN <<>> ELSE DecomposeChar(s[1]) \o Decompose(Tail(s))

\* Canonical composition: a mark composes with the starter before it when the
\* pair has a composite and no uncomposed mark stands between them (a mark
\* left uncomposed blocks the marks after it, all being of one class).
RECURSIVE Compose(_, _)
Compose(out, s) ==
    IF s = <<>> THEN out
    ELSE LET c == s[1]
             n == Len(out)
         IN  IF c \in CombiningMarks /\ n > 0 /\ <<out[n], c>> \in DOMAIN Composition
             THEN Compose([out EXCEPT ![n] = Composition[<<out[n], c>>]], Tail(s))
             ELSE Compose(Append(out, c), Tail(s))

\* unicodedata.normalize("NFKC", s): compatibility decomposition, then
\* canonical composition.
NFKC(s) == Compose(<<>>, Decompose(s))

\* str.strip() with a set of characters to remove at both ends.
RECURSIVE LStrip(_, _)
LStrip(s, cs) ==
    IF s # <<>> /\ s[1] \in cs THEN LStrip(Tail(s), cs) ELSE s

RECURSIVE RStrip(_, _)
RStrip(s, cs) ==
    IF s # <<>> /\ s[Len(s)] \in cs THEN RStrip(SubSeq(s, 1, Len(s) - 1), cs) ELSE s

Strip(s, cs) == RStrip(LStrip(s, cs), cs)

IsAlnum(c) == c \in DigitChars \/ c \in LowerLetters

\* re.sub(r"[^0-9a-z]+", "-", s): every maximal run of other characters
\* becomes one "-".
RECURSIVE CollapseNonAlnum(_)
CollapseNonAlnum(s) ==
    IF s = <<>> THEN <<>>
    ELSE IF IsAlnum(s[1]) THEN <<s[1]>> \o CollapseNonAlnum(Tail(s))
    ELSE <<"-">> \o CollapseNonAlnum(LStrip(s, {c \in {s[i] : i \in 1..Len(s)} : ~IsAlnum(c)}))

normalize_name(name) ==
    IF name = <<>> THEN <<>>
    ELSE LET base == Basename(name)
             stem == SplitextStem(base)
             nfkc == NFKC(stem)
             low  == Strip(Lower(nfkc), Whitespace)
         IN  Strip(CollapseNonAlnum(low), {"-"})

\* Python's "needle in hay" on strings.
Contains(hay, needle) ==
    \E i \in 1..(Len(hay) - Len(needle) + 1) :
        SubSeq(hay, i, i + Len(needle) - 1) = needle

\* s[:n]
Prefix(s, n) == SubSeq(s, 1, IF Len(s) < n THEN Len(s) ELSE n)

-----------------------------------------------------------------------------
(* Python floats: IEEE 754 binary64, round to nearest even.                *)
(*                                                                         *)
(* A natural number of any size is a sequence of bits, lowest first, whose *)
(* last bit is 1 (zero is the empty sequence). A float is a record         *)
(* [cls, neg, m, e]: cls "finite" stands for (-1)^neg * m * 2^e with m odd *)
(* or zero (e = 0 when m is zero); cls "inf" and "nan" carry m = <<>> and  *)
(* e = 0, and a nan carries neg = FALSE.                                   *)

\* Mantissa bits of binary64, its smallest power of two and the power of two
\* at which it overflows.
MantBits == 53
MinExp == -1074
OverflowExp == 1024

\* acc after F(acc, i) for i = lo, lo + 1, ..., hi in turn. The range is
\* halved, and the test on the result of the lower half (which always holds)
\* has it evaluated before the upper half is entered, so that the evaluation
\* nests only as deep as the logarithm of the length of the range.
RECURSIVE FoldUp(_, _, _, _)
FoldUp(F(_, _), lo, hi, acc) ==
    IF lo > hi THEN acc
    ELSE IF lo = hi THEN F(acc, lo)
    ELSE LET mid  == (lo + hi) \div 2
             left == FoldUp(F, lo, mid, acc)
         IN  IF left = left THEN FoldUp(F, mid + 1, hi, left) ELSE left

\* b without its high zero bits.
BitsTrim(b) ==
    LET ones == {i \in 1..Len(b) : b[i] = 1}
    IN  IF ones = {} THEN <<>>
        ELSE SubSeq(b, 1, CHOOSE i \in ones : \A j \in ones : j <= i)

BitAt(b, i) == IF i >= 1 /\ i <= Len(b) THEN b[i] ELSE 0

\* The bits of a natural number n.
RECURSIVE BitsOfNat(_)
BitsOfNat(n) == IF n = 0 THEN <<>> ELSE <<n % 2>> \o BitsOfNat(n \div 2)

\* a + b.
BitsAdd(a, b) ==
    LET n == (IF Len(a) > Len(b) THEN Len(a) ELSE Len(b)) + 1
        Step(acc, i) ==
            LET t == BitAt(a, i) + BitAt(b, i) + acc.c
            IN  [out |-> Append(acc.out, t % 2), c |-> t \div 2]
    IN  BitsTrim(FoldUp(Step, 1, n, [out |-> <<>>, c |-> 0]).out)

\* a - b for a >= b.
BitsSub(a, b) ==
    LET Step(acc, i) ==
            LET t == a[i] - BitAt(b, i) - acc.c
            IN  [out |-> Append(acc.out, t % 2), c |-> IF t < 0 THEN 1 ELSE 0]
    IN  BitsTrim(FoldUp(Step, 1, Len(a), [out |-> <<>>, c |-> 0]).out)

\* a < b: by length, then by the highest bit in which they differ.
BitsLess(a, b) ==
    IF Len(a) # Len(b) THEN Len(a) < Len(b)
    ELSE LET diff == {i \in 1..Len(a) : a[i] # b[i]}
         IN  diff # {} /\ LET i == CHOOSE j \in diff : \A k \in diff : k <= j
                          IN  a[i] < b[i]

\* a * 2^k.
BitsShl(a, k) == IF a = <<>> THEN <<>> ELSE [i \in 1..k |-> 0] \o a

BitsMul10(a) == BitsAdd(BitsShl(a, 3), BitsShl(a, 1))

\* a * 10^k.
BitsMulPow10(a, k) ==
    LET Step(acc, i) == BitsMul10(acc) IN FoldUp(Step, 1, k, a)

BitsPow10(k) == BitsMulPow10(<<1>>, k)

\* Long division of n by d # 0, from the highest bit of n down: quotient q
\* and remainder r.
BitsDivMod(n, d) ==
    LET Step(acc, j) ==
            LET r2 == BitsTrim(<<n[Len(n) + 1 - j]>> \o acc.r)
            IN  IF BitsLess(r2, d)
                THEN [q |-> <<0>> \o acc.q, r |-> r2]
                ELSE [q |-> <<1>> \o acc.q, r |-> BitsSub(r2, d)]
        res == FoldUp(Step, 1, Len(n), [q |-> <<>>, r |-> <<>>])
    IN  [q |-> BitsTrim(res.q), r |-> res.r]

\* Number of low zero bits of b # 0.
TrailingZeros(b) ==
    (CHOOSE i \in 1..Len(b) : b[i] = 1 /\ \A j \in 1..(i - 1) : b[j] = 0) - 1

FloatZero(neg) == [cls |-> "finite", neg |-> neg, m |-> <<>>, e |-> 0]
FloatInf(neg) == [cls |-> "inf", neg |-> neg, m |-> <<>>, e |-> 0]
FloatNan == [cls |-> "nan", neg |-> FALSE, m |-> <<>>, e |-> 0]

\* The float (-1)^neg * b * 2^e for b of at most 53 bits and e >= MinExp.
FloatExact(neg, b, e) ==
    IF b = <<>> THEN FloatZero(neg)
    ELSE IF Len(b) + e > OverflowExp THEN FloatInf(neg)
    ELSE LET z == TrailingZeros(b)
         IN  [cls |-> "finite", neg |-> neg, m |-> SubSeq(b, z + 1, Len(b)), e |-> e + z]

\* The float nearest to (-1)^neg * (b + d) * 2^e, where 0 <= d < 1 and
\* d > 0 exactly when sticky: the bits below the last place of the result
\* are dropped and the result rounded to nearest, ties to even.
FloatRound(neg, b, e, sticky) ==
    IF b = <<>> THEN FloatZero(neg)
    ELSE LET top  == e + Len(b) - 1
             ulp  == IF top - (MantBits - 1) < MinExp THEN MinExp ELSE top - (MantBits - 1)
             k    == ulp - e
         IN  IF k <= 0 THEN FloatExact(neg, b, e)
             ELSE LET kept  == SubSeq(b, k + 1, Len(b))
                      half  == BitAt(b, k) = 1
                      below == sticky \/ \E i \in 1..(k - 1) : BitAt(b, i) = 1
                      odd   == BitAt(kept, 1) = 1
                      up    == half /\ (below \/ odd)
                  IN  FloatExact(neg, IF up THEN BitsAdd(kept, <<1>>) ELSE kept, ulp)

\* The float nearest to (-1)^neg * n / d for naturals n and d # 0: the
\* quotient is taken with enough extra bits for the rounding.
FloatOfRatio(neg, n, d) ==
    IF n = <<>> THEN FloatZero(neg)
    ELSE LET s  == IF MantBits + 3 + Len(d) - Len(n) > 0
                   THEN MantBits + 3 + Len(d) - Len(n) ELSE 0
             qr == BitsDivMod(BitsShl(n, s), d)
         IN  FloatRound(neg, qr.q, -s, qr.r # <<>>)

\* a + b on floats.
FloatAdd(a, b) ==
    IF a.cls = "nan" \/ b.cls = "nan" THEN FloatNan
    ELSE IF a.cls = "inf" /\ b.cls = "inf"
         THEN (IF a.neg = b.neg THEN a ELSE FloatNan)
    ELSE IF a.cls = "inf" THEN a
    ELSE IF b.cls = "inf" THEN b
    ELSE LET e0 == IF a.m = <<>> THEN b.e
                   ELSE IF b.m = <<>> THEN a.e
                   ELSE IF a.e < b.e THEN a.e ELSE b.e
             x  == BitsShl(a.m, a.e - e0)
             y  == BitsShl(b.m, b.e - e0)
         IN  IF a.neg = b.neg THEN FloatRound(a.neg, BitsAdd(x, y), e0, FALSE)
             ELSE IF x = y THEN FloatZero(FALSE)
             ELSE IF BitsLess(x, y) THEN FloatRound(b.neg, BitsSub(y, x), e0, FALSE)
             ELSE FloatRound(a.neg, BitsSub(x, y), e0, FALSE)

\* The whitespace float() strips: that of str.strip() less U+001C to U+001F.
FloatSpace == Whitespace \ {"U+001C", "U+001D", "U+001E", "U+001F"}

DigitVal(c) ==
    CASE c = "0" -> 0 [] c = "1" -> 1 [] c = "2" -> 2 [] c = "3" -> 3 [] c = "4" -> 4
      [] c = "5" -> 5 [] c = "6" -> 6 [] c = "7" -> 7 [] c = "8" -> 8 [] c = "9" -> 9

\* float() reads a decimal digit of another script as the ASCII digit of the
\* same value; U+FF11 is the one such digit of the alphabet.
AsciiDigit(c) == IF c = "U+FF11" THEN "1" ELSE c

AsciiLower(s) == [i \in 1..Len(s) |-> IF s[i] \in UpperLetters THEN LowerTable[s[i]] ELSE s[i]]

\* Index of the first character of s that is in cs, 0 when there is none.
FindFirst(s, cs) ==
    IF \E i \in 1..Len(s) : s[i] \in cs
    THEN CHOOSE i \in 1..Len(s) : s[i] \in cs /\ \A j \in 1..(i - 1) : s[j] \notin cs
    ELSE 0

\* Digits with single underscores between them.
DigitGroup(p) ==
    /\ p # <<>>
    /\ \A i \in 1..Len(p) : p[i] \in DigitChars \cup {"_"}
    /\ p[1] # "_" /\ p[Len(p)] # "_"
    /\ \A i \in 1..(Len(p) - 1) : ~(p[i] = "_" /\ p[i + 1] = "_")

WithoutUnderscores(p) == SelectSeq(p, LAMBDA c : c # "_")

\* The parts of the text handed to float(): sign, body, and the body's
\* integer digits, fraction digits and exponent.
FloatParts(s) ==
    LET t     == Strip([i \in 1..Len(s) |-> AsciiDigit(s[i])], FloatSpace)
        sgn   == t # <<>> /\ t[1] \in {"+", "-"}
        body  == IF sgn THEN Tail(t) ELSE t
        ei    == FindFirst(body, {"e", "E"})
        mant  == IF ei = 0 THEN body ELSE SubSeq(body, 1, ei - 1)
        ex    == IF ei = 0 THEN <<>> ELSE SubSeq(body, ei + 1, Len(body))
        esgn  == ex # <<>> /\ ex[1] \in {"+", "-"}
        di    == FindFirst(mant, {"."})
    IN  [neg   |-> sgn /\ t[1] = "-",
         body  |-> body,
         int   |-> IF di = 0 THEN mant ELSE SubSeq(mant, 1, di - 1),
         frac  |-> IF di = 0 THEN <<>> ELSE SubSeq(mant, di + 1, Len(mant)),
         hasExp |-> ei # 0,
         expNeg |-> esgn /\ ex[1] = "-",
         exp   |-> IF esgn THEN Tail(ex) ELSE ex]

FloatIsSpecial(p) ==
    AsciiLower(p.body) \in { <<"i","n","f">>, <<"i","n","f","i","n","i","t","y">>,
                             <<"n","a","n">> }

FloatIsDecimal(p) ==
    /\ p.int = <<>> \/ DigitGroup(p.int)
    /\ p.frac = <<>> \/ DigitGroup(p.frac)
    /\ p.int # <<>> \/ p.frac # <<>>
    /\ p.hasExp => DigitGroup(p.exp)

\* Whether float(s) returns (it raises ValueError otherwise).
IsNumeric(s) == \E p \in {FloatParts(s)} : FloatIsSpecial(p) \/ FloatIsDecimal(p)

\* Decimal exponents are read up to this magnitude; every float is decided
\* well below it.
ExpCap == 100000

\* The number a string of digits spells, capped at ExpCap.
NatOfDigits(ds) ==
    LET Step(acc, i) ==
            LET n == 10 * acc + DigitVal(ds[i]) IN IF n > ExpCap THEN ExpCap ELSE n
    IN  FoldUp(Step, 1, Len(ds), 0)

\* The number a string of digits spells, of any size: up to SmallDigits
\* digits are read as an integer, more are added up in bits.
SmallDigits == 9
BitsOfDigits(ds) ==
    LET Small(acc, i) == 10 * acc + DigitVal(ds[i])
        Step(acc, i)  == BitsAdd(BitsMul10(acc), BitsOfNat(DigitVal(ds[i])))
    IN  IF Len(ds) <= SmallDigits THEN BitsOfNat(FoldUp(Small, 1, Len(ds), 0))
        ELSE FoldUp(Step, 1, Len(ds), <<>>)

\* The float nearest to (-1)^neg * ds * 10^e10, ds a string of digits.
\* Zeros at the end of ds are first traded against a negative e10, which
\* leaves the number as it is.
FloatOfDecimal(neg, ds, e10) ==
    LET d  == LStrip(ds, {"0"})
        nd == Len(d)
        z  == nd - Len(RStrip(d, {"0"}))
        k  == IF e10 >= 0 THEN 0 ELSE IF z < -e10 THEN z ELSE -e10
        d2 == SubSeq(d, 1, nd - k)
        e2 == e10 + k
    IN  IF d = <<>> THEN FloatZero(neg)
        ELSE IF nd + e10 > 309 THEN FloatInf(neg)
        ELSE IF nd + e10 < -323 THEN FloatZero(neg)
        ELSE IF e2 >= 0
             THEN FloatRound(neg, BitsMulPow10(BitsOfDigits(d2), e2), 0, FALSE)
        ELSE FloatOfRatio(neg, BitsOfDigits(d2), BitsPow10(-e2))

\* The digits of a decimal text of parts p and the power of ten they are
\* multiplied by.
FloatDigits(p) ==
    LET frac == WithoutUnderscores(p.frac)
        ex   == NatOfDigits(WithoutUnderscores(p.exp))
    IN  [ds  |-> WithoutUnderscores(p.int) \o frac,
         e10 |-> (IF p.expNeg THEN -ex ELSE ex) - Len(frac)]

\* float() of a text of parts p.
FloatOfParts(p) ==
    IF FloatIsSpecial(p)
    THEN (IF AsciiLower(p.body) = <<"n","a","n">> THEN FloatNan ELSE FloatInf(p.neg))
    ELSE CHOOSE v \in {FloatOfDecimal(p.neg, a.ds, a.e10) : a \in {FloatDigits(p)}} : TRUE

\* float(s) for a text s on which it returns.
FloatOf(s) == CHOOSE v \in {FloatOfParts(p) : p \in {FloatParts(s)}} : TRUE

-----------------------------------------------------------------------------
(* parse_cfdi. *)

\* Program constants.
Epoch == 0
ShortLen == 8
LabelWidth == 2
UuidLen == 36

\* The namespace table of parse_cfdi.
NsCfdi33 ==
    <<"h","t","t","p",":","/","/","w","w","w",".","s","a","t",".","g","o","b","m","x","/","c","f","d","/","3">>
NsCfdi33Alt ==
    <<"h","t","t","p",":","/","/","w","w","w",".","s","a","t",".","g","o","b",".","m","x","/","c","f","d","/","3">>
NsCfdi40 ==
    <<"h","t","t","p",":","/","/","w","w","w",".","s","a","t",".","g","o","b",".","m","x","/","c","f","d","/","4">>
NsCfdi40Alt ==
    <<"h","t","t","p",":","/","/","w","w","w",".","s","a","t",".","g","o","b","m","x","/","c","f","d","/","4">>

ns == [cfdi33 |-> NsCfdi33, cfdi33_alt |-> NsCfdi33Alt,
       cfdi40 |-> NsCfdi40, cfdi40_alt |-> NsCfdi40Alt]

Cfd4 == <<"c","f","d","/","4">>

(* A structured document, as far as parse_cfdi reads it:                   *)
(*   wellformed      ET.fromstring accepts the bytes                       *)
(*   ns              namespace URI of the root and of the cfdi elements    *)
(*   schemaLocation  text of the root's attributes (json.dumps(attrib))    *)
(*   hasStamp, UUID  the tfd:TimbreFiscalDigital element and its UUID      *)
(*   hasEmisor, Rfc, RfcEmisor   the Emisor child and its attributes       *)
(*   Moneda, Total   root attributes (<<>> when absent)                    *)
(*   Fecha           [valid, day]: whether the first 10 characters parse   *)
(*                   as a date, and the day number (1970-01-01 = 0)        *)
(*   Traslados       the Traslado elements under a Traslados element, in   *)
(*                   document order: [Impuesto, Importe], "" / <<>> absent *)

\* The key of the namespace table parse_cfdi selects.
ckey(doc) ==
    IF Contains(<<"{">> \o doc.ns \o <<"}">>, Cfd4) \/ Contains(doc.schemaLocation, Cfd4)
    THEN "cfdi40" ELSE "cfdi33"

cns(doc) == ns[ckey(doc)]

\* root.find / root.findall with prefix cfdi bound to cns: the elements of the
\* document are found when they are in that namespace.
CfdiFound(doc) == doc.ns = cns(doc)

\* One turn of the IVA loop: the new iva_sum after Traslado t.
IvaStep(iva_sum, t) ==
    IF t.Impuesto \in {"002", "2"}
    THEN LET txt == IF t.Importe = <<>> THEN <<"0">> ELSE t.Importe
         IN  IF IsNumeric(txt)
             THEN CHOOSE v \in {FloatAdd(iva_sum, x) : x \in {FloatOf(txt)}} : TRUE
             ELSE iva_sum
    ELSE iva_sum

RECURSIVE IvaLoop(_, _)
IvaLoop(iva_sum, ts) ==
    IF ts = <<>> THEN iva_sum ELSE IvaLoop(IvaStep(iva_sum, ts[1]), Tail(ts))

\* (s or default) of a text.
OrElse(s, default) == IF s = <<>> THEN default ELSE s

\* A cell of the Total_Comprobante column holds a text, None or a float.
TextCell(s) == [cls |-> "text", text |-> s]
NoneCell == [cls |-> "none"]

Miscellaneous == <<"M","i","s","c","e","l","l","a","n","e","o","u","s">>
MXN == <<"M","X","N">>

\* Whether parse_cfdi raises (ET.fromstring on malformed markup).
ParseRaises(doc) == ~doc.wellformed

\* The dictionary parse_cfdi returns for a well-formed document.
parse_cfdi(doc) ==
    [UUID              |-> IF doc.hasStamp THEN doc.UUID ELSE <<>>,
     RFC_Emisor        |-> IF CfdiFound(doc) /\ doc.hasEmisor
                           THEN OrElse(doc.Rfc, doc.RfcEmisor) ELSE <<>>,
     Total_Impuestos   |-> IvaLoop(FloatZero(FALSE), IF CfdiFound(doc) THEN doc.Traslados ELSE <<>>),
     Total_Comprobante |-> TextCell(OrElse(doc.Total, <<"0">>)),
     Currency          |-> OrElse(doc.Moneda, MXN),
     Type              |-> Miscellaneous,
     Fecha             |-> IF doc.Fecha.valid THEN doc.Fecha.day ELSE Epoch]

-----------------------------------------------------------------------------
(* Labels, dictionaries, sorting. *)

\* str(n) for n >= 0.
RECURSIVE DecStr(_)
DecStr(n) ==
    LET d == <<"0","1","2","3","4","5","6","7","8","9">>[(n % 10) + 1]
    IN  IF n < 10 THEN <<d>> ELSE DecStr(n \div 10) \o <<d>>

\* str.zfill(width)
RECURSIVE ZFill(_, _)
ZFill(s, width) == IF Len(s) >= width THEN s ELSE ZFill(<<"0">> \o s, width)

seq_label(n, width) == ZFill(DecStr(n), width)

\* A Python dict, kept as the sequence of its items in insertion order.
DictHas(d, k) == \E i \in 1..Len(d) : d[i].key = k

DictGet(d, k) == d[CHOOSE i \in 1..Len(d) : d[i].key = k].val

\* A dictionary filled with setdefault: the value of a key already present stays.
DictPut_keeps_first(d, k, v) ==
    IF DictHas(d, k) THEN d ELSE Append(d, [key |-> k, val |-> v])

\* d[k] = v: a key already present keeps its place and takes the new value.
DictPut(d, k, v) ==
    IF DictHas(d, k)
    THEN [i \in 1..Len(d) |-> IF d[i].key = k THEN [key |-> k, val |-> v] ELSE d[i]]
    ELSE Append(d, [key |-> k, val |-> v])

\* A missing date (pandas NaT) in the Fecha column of the review table; the
\* dates of the model are day numbers >= Epoch.
NaT == -1

\* a sorts at or before b under sort_values(by="Fecha", ascending=True),
\* which puts missing dates last.
FechaLeq(a, b) == b = NaT \/ (a # NaT /\ a <= b)

Perms(n) ==
    {f \in [1..n -> 1..n] : \A i, j \in 1..n : i # j => f[i] # f[j]}

\* sort_values(by="Fecha") is called without kind, so pandas sorts with
\* kind="quicksort": numpy's argsort of the dates that are present, run by the
\* introsort aquicksort_ below, with the rows of missing date put last in the
\* order they had.  Arrays are 1-based here; tosort is the array of positions
\* being permuted and v the array of keys it points into.

\* A range of more than SMALL_QUICKSORT + 1 positions is partitioned; a
\* shorter one is sorted by insertion.
SMALL_QUICKSORT == 16

INTP_SWAP(tosort, a, b) == [tosort EXCEPT ![a] = tosort[b], ![b] = tosort[a]]

\* if (less(v[*a], v[*b])) INTP_SWAP(*a, *b)
SwapIfLess(v, tosort, a, b) ==
    IF v[tosort[a]] < v[tosort[b]] THEN INTP_SWAP(tosort, a, b) ELSE tosort

\* The three conditional swaps that leave the median of v[*pl], v[*pm],
\* v[*pr] at pm.
MedianOfThree(v, tosort, pl, pm, pr) ==
    CHOOSE c \in {SwapIfLess(v, b, pm, pl) :
                    b \in {SwapIfLess(v, a, pr, pm) :
                             a \in {SwapIfLess(v, tosort, pm, pl)}}} : TRUE

\* do { ++pi; } while (less(v[*pi], vp))
RECURSIVE ScanUp(_, _, _, _)
ScanUp(v, tosort, pi, vp) ==
    IF v[tosort[pi + 1]] < vp THEN ScanUp(v, tosort, pi + 1, vp) ELSE pi + 1

\* do { --pj; } while (less(vp, v[*pj]))
RECURSIVE ScanDown(_, _, _, _)
ScanDown(v, tosort, pj, vp) ==
    IF vp < v[tosort[pj - 1]] THEN ScanDown(v, tosort, pj - 1, vp) ELSE pj - 1

\* The for (;;) loop of the partition: both scans stop on a key equal to the
\* pivot, and the two positions they stopped at are exchanged.
RECURSIVE PartitionLoop(_, _, _, _, _)
PartitionLoop(v, tosort, pi, pj, vp) ==
    CHOOSE r \in {IF i >= j
                  THEN [tosort |-> tosort, pi |-> i]
                  ELSE PartitionLoop(v, INTP_SWAP(tosort, i, j), i, j, vp) :
                    i \in {ScanUp(v, tosort, pi, vp)},
                    j \in {ScanDown(v, tosort, pj, vp)}} : TRUE

\* One partition of pl..pr: the pivot is parked at pr - 1, the loop runs
\* from pl and pr - 1, and the pivot is put back at the place the loop ended.
Partition(v, tosort, pl, pr) ==
    CHOOSE r \in {[tosort |-> INTP_SWAP(q.tosort, q.pi, pr - 1), pi |-> q.pi] :
                    q \in UNION {{PartitionLoop(v, INTP_SWAP(m, pm, pr - 1),
                                                pl, pr - 1, v[m[pm]]) :
                                    m \in {MedianOfThree(v, tosort, pl, pm, pr)}} :
                                 pm \in {pl + (pr - pl) \div 2}}} : TRUE

\* The inner while of the insertion sort: positions are shifted up while the
\* key of vi is strictly less than the key before it.
RECURSIVE InsertOne(_, _, _, _, _)
InsertOne(v, tosort, pl, pj, vi) ==
    IF pj > pl /\ v[vi] < v[tosort[pj - 1]]
    THEN InsertOne(v, [tosort EXCEPT ![pj] = tosort[pj - 1]], pl, pj - 1, vi)
    ELSE [tosort EXCEPT ![pj] = vi]

\* for (pi = pl + 1; pi <= pr; ++pi)
RECURSIVE InsertionSort(_, _, _, _, _)
InsertionSort(v, tosort, pl, pi, pr) ==
    IF pi > pr
    THEN tosort
    ELSE InsertionSort(v, InsertOne(v, tosort, pl, pi, tosort[pi]), pl, pi + 1, pr)

\* aquicksort_ on pl..pr.  The two sides of a partition are disjoint ranges,
\* so the order in which the stack hands them back does not matter.  The
\* fall-back to heapsort needs more than 2 * floor(log2 n) partitions nested
\* in one another, which no table of under 26 rows has.
RECURSIVE aquicksort(_, _, _, _)
aquicksort(v, tosort, pl, pr) ==
    IF pr - pl > SMALL_QUICKSORT
    THEN CHOOSE s \in {aquicksort(v, aquicksort(v, p.tosort, pl, p.pi - 1),
                                  p.pi + 1, pr) :
                         p \in {Partition(v, tosort, pl, pr)}} : TRUE
    ELSE InsertionSort(v, tosort, pl, pl + 1, pr)

\* The positions of t, in order, whose date is present / missing.
non_nan_idx(t) == SelectSeq([i \in 1..Len(t) |-> i], LAMBDA i : t[i].Fecha # NaT)
nan_idx(t) == SelectSeq([i \in 1..Len(t) |-> i], LAMBDA i : t[i].Fecha = NaT)

\* numpy's argsort of the keys v.
argsort(v) == aquicksort(v, [k \in 1..Len(v) |-> k], 1, Len(v))

\* The order sort_values(by="Fecha", ascending=True) gives table t, as the
\* list of old positions in new order: the rows of present date as argsort
\* orders them, then the rows of missing date.
sort_values(t) ==
    CHOOSE f \in UNION {{[k \in 1..Len(nn) |-> nn[a[k]]] \o nan_idx(t) :
                           a \in {argsort([k \in 1..Len(nn) |-> t[nn[k]].Fecha])}} :
                        nn \in {non_nan_idx(t)}} : TRUE

Reindex(t, f) == [i \in 1..Len(t) |-> t[f[i]]]

-----------------------------------------------------------------------------
(* The upload script: parse loop, sort, label, match. *)

\* One turn of the parse loop: the dictionary appended for upload f.
ParseOne(f) ==
    IF ParseRaises(f.doc)
    THEN [XML_FileName      |-> f.name,
          XML_Stem          |-> normalize_name(f.name),
          XML_Stem_raw      |-> SplitextStem(Basename(f.name)),
          UUID              |-> <<>>,
          RFC_Emisor        |-> <<>>,
          Total_Impuestos   |-> FloatZero(FALSE),
          Total_Comprobante |-> FloatZero(FALSE),
          Currency          |-> MXN,
          Type              |-> Miscellaneous,
          Fecha             |-> Epoch,
          Notas             |-> "Parse error"]
    ELSE CHOOSE r \in
           { [XML_FileName      |-> f.name,
              XML_Stem          |-> normalize_name(f.name),
              XML_Stem_raw      |-> SplitextStem(Basename(f.name)),
              UUID              |-> row.UUID,
              RFC_Emisor        |-> row.RFC_Emisor,
              Total_Impuestos   |-> row.Total_Impuestos,
              Total_Comprobante |-> row.Total_Comprobante,
              Currency          |-> row.Currency,
              Type              |-> row.Type,
              Fecha             |-> row.Fecha,
              Notas             |-> ""] : row \in {parse_cfdi(f.doc)} } : TRUE

\* The parse loop without the per-document try: the first failure ends it.
RECURSIVE ParseLoop_aborts(_, _)
ParseLoop_aborts(acc, ups) ==
    IF ups = <<>> \/ ParseRaises(ups[1].doc) THEN acc
    ELSE ParseLoop_aborts(Append(acc, ParseOne(ups[1])), Tail(ups))

\* The parse loop over the uploaded documents: rows after the loop.
RECURSIVE ParseLoop(_, _)
ParseLoop(acc, ups) ==
    IF ups = <<>> THEN acc
    ELSE ParseLoop(Append(acc, ParseOne(ups[1])), Tail(ups))

\* pdf_map: normalized stem -> bytes of the scan.
RECURSIVE PdfMap(_, _)
PdfMap(acc, ups) ==
    IF ups = <<>> THEN acc
    ELSE PdfMap(DictPut(acc, normalize_name(ups[1].name), ups[1].data), Tail(ups))

\* pdf_name_lookup: normalized stem -> original name of the scan.
RECURSIVE PdfNameLookup(_, _)
PdfNameLookup(acc, ups) ==
    IF ups = <<>> THEN acc
    ELSE PdfNameLookup(DictPut(acc, normalize_name(ups[1].name), Basename(ups[1].name)),
                       Tail(ups))

\* The first item of dictionary d, in its order, whose key contains uuid or
\* short; 0 when there is none.
FirstContaining(d, uuid, short) ==
    LET hits == {i \in 1..Len(d) : Contains(d[i].key, uuid) \/ Contains(d[i].key, short)}
    IN  IF hits = {} THEN 0 ELSE CHOOSE i \in hits : \A j \in hits : i <= j

\* pdf_name_for_row: the scan name shown for row r at review, <<>> when none.
pdf_name_for_row(r, map, lookup) ==
    LET nstem == r.XML_Stem
        uuid  == Lower(r.UUID)
    IN  IF DictHas(map, nstem) THEN DictGet(lookup, nstem)
        ELSE IF uuid # <<>> /\ FirstContaining(lookup, uuid, Prefix(uuid, ShortLen)) # 0
             THEN lookup[FirstContaining(lookup, uuid, Prefix(uuid, ShortLen))].val
        ELSE <<>>

\* df after sort (order f), reset_index, labelling and matching.
MakeDf(rs, f, ups) ==
    LET sorted == Reindex(rs, f)
    IN  [i \in 1..Len(rs) |->
            [No_VDR            |-> seq_label(i, LabelWidth),
             UUID              |-> sorted[i].UUID,
             RFC_Emisor        |-> sorted[i].RFC_Emisor,
             Total_Impuestos   |-> sorted[i].Total_Impuestos,
             Total_Comprobante |-> sorted[i].Total_Comprobante,
             Currency          |-> sorted[i].Currency,
             Type              |-> sorted[i].Type,
             Fecha             |-> sorted[i].Fecha,
             XML_FileName      |-> sorted[i].XML_FileName,
             XML_Stem          |-> sorted[i].XML_Stem,
             XML_Stem_raw      |-> sorted[i].XML_Stem_raw,
             Notas             |-> sorted[i].Notas,
             PDF_FileName      |-> pdf_name_for_row(sorted[i], PdfMap(<<>>, ups),
                                                    PdfNameLookup(<<>>, ups))]]

\* df[show_cols]: the columns handed to the editor.
ShowCols(r) ==
    [No_VDR            |-> r.No_VDR,
     UUID              |-> r.UUID,
     RFC_Emisor        |-> r.RFC_Emisor,
     Total_Impuestos   |-> r.Total_Impuestos,
     Total_Comprobante |-> r.Total_Comprobante,
     Type              |-> r.Type,
     Currency          |-> r.Currency,
     Fecha             |-> r.Fecha,
     XML_FileName      |-> r.XML_FileName,
     PDF_FileName      |-> r.PDF_FileName]

-----------------------------------------------------------------------------
(* The build button handler. *)

\* Relabel without the overwrite: the labels of the edited table survive.
Relabel_keeps_labels(t, f) == Reindex(t, f)

\* tmp: edited in order f, index reset, No.VDR overwritten.
Relabel(t, f) ==
    [i \in 1..Len(t) |-> [Reindex(t, f)[i] EXCEPT !.No_VDR = seq_label(i, LabelWidth)]]

\* rownum of a row of tmp.
RowNum(r) == Strip(Str(OrEmpty(r.No_VDR)), Whitespace)

\* nstem of the archive loop: normalize_name of the XML file name with its
\* extension already taken off.
BuildStem(r) == normalize_name(SplitextStem(Basename(Str(r.XML_FileName))))

\* The item of pdf_map the archive loop writes for row r: the one under nstem,
\* else the first whose key contains the identifier or its first characters;
\* 0 when the row is left without a PDF.
PlacedItem(r, map) ==
    LET nstem == BuildStem(r)
        uuid  == Lower(Str(OrEmpty(r.UUID)))
    IN  IF DictHas(map, nstem)
        THEN CHOOSE i \in 1..Len(map) : map[i].key = nstem
        ELSE IF uuid # <<>> THEN FirstContaining(map, uuid, Prefix(uuid, ShortLen))
        ELSE 0

PdfExt == <<".","p","d","f">>

\* The archive loop naming each entry by the row's stem, not by its rownum.
RECURSIVE PdfEntries_by_stem(_, _)
PdfEntries_by_stem(t, map) ==
    IF t = <<>> THEN <<>>
    ELSE LET r == t[1]
             k == PlacedItem(r, map)
         IN  (IF RowNum(r) # <<>> /\ k # 0
              THEN <<[name |-> BuildStem(r) \o PdfExt, data |-> map[k].val]>>
              ELSE <<>>) \o PdfEntries_by_stem(Tail(t), map)

\* The archive entries the loop over tmp writes.
RECURSIVE PdfEntries(_, _)
PdfEntries(t, map) ==
    IF t = <<>> THEN <<>>
    ELSE LET r == t[1]
             k == PlacedItem(r, map)
         IN  (IF RowNum(r) # <<>> /\ k # 0
              THEN <<[name |-> RowNum(r) \o PdfExt, data |-> map[k].val]>>
              ELSE <<>>) \o PdfEntries(Tail(t), map)

\* missing_pdfs_detail after the loop over tmp.
RECURSIVE MissingPdfs(_, _)
MissingPdfs(t, map) ==
    IF t = <<>> THEN <<>>
    ELSE LET r == t[1]
         IN  (IF RowNum(r) # <<>> /\ PlacedItem(r, map) = 0
              THEN <<[rownum |-> RowNum(r), nstem |-> BuildStem(r)]>>
              ELSE <<>>) \o MissingPdfs(Tail(t), map)

\* bad_uuid_rows
RECURSIVE BadUuidRows(_)
BadUuidRows(t) ==
    IF t = <<>> THEN <<>>
    ELSE (IF Len(Str(t[1].UUID)) # UuidLen THEN <<Str(t[1].No_VDR)>> ELSE <<>>)
         \o BadUuidRows(Tail(t))

\* float(v or 0) of a cell: None, an empty text and a zero float give 0.0;
\* a text float() rejects gives 0.0 through the except branch.
CellFloat(v) ==
    IF v.cls = "none" THEN FloatZero(FALSE)
    ELSE IF v.cls = "text"
         THEN (IF v.text # <<>> /\ IsNumeric(v.text) THEN FloatOf(v.text)
               ELSE FloatZero(FALSE))
    ELSE IF v.cls = "finite" /\ v.m = <<>> THEN FloatZero(FALSE)
    ELSE v

\* str(v or default) of a text cell.
StrOr(v, default) == IF v = None \/ v = <<>> THEN default ELSE v

\* The cells written for one row of the table.
ExcelRow(r) ==
    [No_VDR |-> Str(r.No_VDR), UUID |-> Str(r.UUID),
     RFC_Emisor |-> Str(r.RFC_Emisor),
     Total_Impuestos |-> CellFloat(r.Total_Impuestos),
     Total_Comprobante |-> CellFloat(r.Total_Comprobante),
     Type |-> StrOr(r.Type, Miscellaneous), Currency |-> StrOr(r.Currency, MXN)]

\* The row put in an empty table before the rows are written.
PlaceholderRow ==
    [No_VDR |-> <<"0","1">>, UUID |-> <<>>, RFC_Emisor |-> <<>>,
     Total_Impuestos |-> FloatZero(FALSE), Total_Comprobante |-> FloatZero(FALSE),
     Type |-> Miscellaneous, Currency |-> MXN]

\* The body rows build_submission_excel_from_df writes: one per row of
\* export_df, or the placeholder row when it is empty.
ExcelRows(t) ==
    IF t = <<>> THEN <<ExcelRow(PlaceholderRow)>>
    ELSE [i \in 1..Len(t) |-> ExcelRow(t[i])]

\* Whether writing the body rows x raises: write_number rejects a NaN and
\* an infinity (the workbook is created without the nan_inf_to_errors
\* option), and the exception ends the handler.
ExcelRaises(x) ==
    \E i \in 1..Len(x) :
        \/ x[i].Total_Impuestos.cls \in {"nan", "inf"}
        \/ x[i].Total_Comprobante.cls \in {"nan", "inf"}

XlsxName == <<"SUBMISSION_IVA_FORM.xlsx">>
ReadmeName == <<"README.txt">>

\* A handler that stops, writing nothing, when no scan was uploaded.
ZipEntries_stops_without_scans(t, map) ==
    IF map = <<>> THEN <<>>
    ELSE <<[name |-> XlsxName, data |-> "xlsx_bytes"]>>
         \o PdfEntries(t, map)
         \o <<[name |-> ReadmeName, data |-> "readme"]>>

\* The whole archive: the spreadsheet, the PDFs, the readme.
ZipEntries(t, map) ==
    <<[name |-> XlsxName, data |-> "xlsx_bytes"]>>
    \o PdfEntries(t, map)
    \o <<[name |-> ReadmeName, data |-> "readme"]>>

\* The largest carnet file, in bytes, that draws no warning (3 MB).
CarnetLimit == 3 * 1024 * 1024

\* The warnings shown after the build, in the order they are appended: the
\* identifiers, the carnet file, the missing PDFs.
Warnings(bad_uuid_rows, carnet, missing) ==
    (IF bad_uuid_rows # <<>>
     THEN <<[kind |-> "UUID not 36 chars", rows |-> bad_uuid_rows]>> ELSE <<>>)
    \o (IF carnet.present /\ carnet.size > CarnetLimit
        THEN <<[kind |-> "Carnet PDF over 3 MB", rows |-> <<>>]>> ELSE <<>>)
    \o (IF missing # <<>>
        THEN <<[kind |-> "Missing matching PDF",
                rows |-> [i \in 1..Len(missing) |-> missing[i].rownum]]>>
        ELSE <<>>)

-----------------------------------------------------------------------------
(* The uploads the pipeline is run on. *)

Uuid1 == <<"A","B","1","2","3","4","5","6","-","9">>

RfcA == <<"A","A","A","0","1","0","1","0","1","A","A","A">>
RfcB == <<"B","B","B","0","2","0","2","0","2","B","B","B">>

\* A well-formed CFDI 4.0 document in the canonical namespace.
Doc(uuidPresent, uuid, fechaValid, day) ==
    [wellformed |-> TRUE, ns |-> NsCfdi40, schemaLocation |-> <<>>,
     hasStamp |-> uuidPresent, UUID |-> uuid,
     hasEmisor |-> TRUE, Rfc |-> RfcA, RfcEmisor |-> <<>>,
     Moneda |-> MXN, Total |-> <<"1","1","6",".","0","0">>,
     Fecha |-> [valid |-> fechaValid, day |-> day],
     Traslados |-> <<[Impuesto |-> "002", Importe |-> <<"1","6",".","0","0">>]>>]

\* Bytes ET.fromstring rejects.
Malformed == [Doc(FALSE, <<>>, FALSE, 0) EXCEPT !.wellformed = FALSE]

XmlPool ==
    { [name |-> <<"a",".","b",".","x","m","l">>, doc |-> Doc(TRUE, Uuid1, TRUE, 2)],
      [name |-> <<"n","1",".","x","m","l">>,     doc |-> Doc(FALSE, <<>>, TRUE, 1)],
      [name |-> <<"n","3",".","x","m","l">>,     doc |-> Doc(TRUE, Uuid1, FALSE, 0)],
      [name |-> <<"b","a","d",".","x","m","l">>, doc |-> Malformed] }

PdfPool ==
    { [name |-> <<"a",".","b",".","p","d","f">>, data |-> "pdf1"],
      [name |-> <<"N","1",".","P","D","F">>,     data |-> "pdf3"],
      [name |-> <<"n","1",".","p","d","f">>,     data |-> "pdf4"],
      [name |-> <<"x","-","a","b","1","2","3","4","5","6",".","p","d","f">>,
       data |-> "pdf5"],
      [name |-> <<"A","B","1","2","3","4","5","6","-","9",".","p","d","f">>,
       data |-> "pdf6"] }

SeqsUpTo(S, n) == UNION {[1..k -> S] : k \in 0..n}

\* Values the operator types into the review table.
EditDates == {2}
EditLabels == {<<"0","7">>}

\* The rows the editor appends. A cell left unfilled holds None in a text
\* column, NaN in the float column Total_Impuestos and NaT in Fecha. In the
\* first row every cell is left unfilled; in the second the operator has
\* typed the two amounts in and chosen the type and the currency.
AddedRows ==
    { [No_VDR |-> None, UUID |-> None, RFC_Emisor |-> None,
       Total_Impuestos |-> FloatNan, Total_Comprobante |-> NoneCell,
       Type |-> None, Currency |-> None,
       Fecha |-> NaT, XML_FileName |-> None, PDF_FileName |-> None],
      [No_VDR |-> None, UUID |-> None, RFC_Emisor |-> None,
       Total_Impuestos |-> FloatZero(FALSE), Total_Comprobante |-> TextCell(<<"0">>),
       Type |-> Miscellaneous, Currency |-> MXN,
       Fecha |-> NaT, XML_FileName |-> None, PDF_FileName |-> None] }

\* The carnet uploader: empty, or holding a file of the largest size that
\* draws no warning, or of one byte more.
NoCarnet == [present |-> FALSE, size |-> 0]
CarnetPool ==
    { NoCarnet, [present |-> TRUE, size |-> CarnetLimit],
      [present |-> TRUE, size |-> CarnetLimit + 1] }

-----------------------------------------------------------------------------
(* The pipeline as a state machine. *)

NoDoc == Malformed
NoRec == [raised |-> FALSE, done |-> FALSE, row |-> parse_cfdi(Doc(FALSE, <<>>, FALSE, 0))]

InitPipe ==
    /\ xml_up = <<>>
    /\ pdf_up = <<>>
    /\ carnet_up = NoCarnet
    /\ rows = <<>>
    /\ df_index = <<>>
    /\ df = <<>>
    /\ edited = <<>>
    /\ nedits = 0
    /\ built = FALSE
    /\ build_error = FALSE
    /\ tmp_index = <<>>
    /\ tmp = <<>>
    /\ xlsx = <<>>
    /\ zip = <<>>
    /\ missing_pdfs_detail = <<>>
    /\ warnings = <<>>

\* Nothing handed to normalize_name on its own.
NoNames == <<<<>>, <<>>>>
NoKeys == [done |-> FALSE, key |-> <<<<>>, <<>>>>]

\* Nothing handed to sort_values on its own.
NoIndex == [done |-> FALSE, f |-> <<>>]

Init ==
    /\ InitPipe
    /\ pdoc = NoDoc
    /\ prec = NoRec
    /\ nname = NoNames
    /\ nkey = NoKeys
    /\ sfecha = <<>>
    /\ sindex = NoIndex

NoBuild ==
    /\ built' = FALSE
    /\ build_error' = FALSE
    /\ tmp_index' = <<>>
    /\ tmp' = <<>>
    /\ xlsx' = <<>>
    /\ zip' = <<>>
    /\ missing_pdfs_detail' = <<>>
    /\ warnings' = <<>>

\* The files are uploaded and the script runs down to the editor: every
\* document is parsed, the table is sorted, labelled and matched.
Upload ==
    /\ xml_up = <<>>
    /\ \E xs \in SeqsUpTo(XmlPool, MaxXml) \ {<<>>}, ps \in SeqsUpTo(PdfPool, MaxPdf),
          c \in CarnetPool :
         /\ xml_up' = xs
         /\ pdf_up' = ps
         /\ carnet_up' = c
         /\ rows' = ParseLoop(<<>>, xs)
         /\ \E f \in {sort_values(rows')} :
              /\ df_index' = f
              /\ df' = MakeDf(rows', f, ps)
              /\ edited' = [i \in 1..Len(df') |-> ShowCols(df'[i])]
    /\ nedits' = 0
    /\ NoBuild
    /\ UNCHANGED <<parseVars, normVars, sortVars>>

CanEdit == xml_up # <<>> /\ nedits < MaxEdits

EditDeleteRow ==
    /\ CanEdit
    /\ \E i \in 1..Len(edited) :
         edited' = SubSeq(edited, 1, i - 1) \o SubSeq(edited, i + 1, Len(edited))
    /\ nedits' = nedits + 1
    /\ NoBuild
    /\ UNCHANGED <<xml_up, pdf_up, carnet_up, rows, df_index, df, pdoc, prec, normVars, sortVars>>

EditAddRow ==
    /\ CanEdit
    /\ \E r \in AddedRows : edited' = Append(edited, r)
    /\ nedits' = nedits + 1
    /\ NoBuild
    /\ UNCHANGED <<xml_up, pdf_up, carnet_up, rows, df_index, df, pdoc, prec, normVars, sortVars>>

EditSetFecha ==
    /\ CanEdit
    /\ \E i \in 1..Len(edited), d \in EditDates :
         /\ edited[i].Fecha # d
         /\ edited' = [edited EXCEPT ![i].Fecha = d]
    /\ nedits' = nedits + 1
    /\ NoBuild
    /\ UNCHANGED <<xml_up, pdf_up, carnet_up, rows, df_index, df, pdoc, prec, normVars, sortVars>>

EditSetLabel ==
    /\ CanEdit
    /\ \E i \in 1..Len(edited), l \in EditLabels :
         /\ edited[i].No_VDR # l
         /\ edited' = [edited EXCEPT ![i].No_VDR = l]
    /\ nedits' = nedits + 1
    /\ NoBuild
    /\ UNCHANGED <<xml_up, pdf_up, carnet_up, rows, df_index, df, pdoc, prec, normVars, sortVars>>

\* The build button handler, from the click to the warnings. When the
\* spreadsheet cannot be written the handler ends there, in an exception:
\* nothing is offered for download and no warning is shown.
Build ==
    /\ xml_up # <<>>
    /\ \E f \in {sort_values(edited)} :
         \E t \in {Relabel(edited, f)} :
         \E x \in {ExcelRows(t)} :
             IF ExcelRaises(x)
             THEN /\ built' = FALSE
                  /\ build_error' = TRUE
                  /\ tmp_index' = <<>>
                  /\ tmp' = <<>>
                  /\ xlsx' = <<>>
                  /\ zip' = <<>>
                  /\ missing_pdfs_detail' = <<>>
                  /\ warnings' = <<>>
             ELSE LET pdf_map == PdfMap(<<>>, pdf_up)
                  IN  /\ built' = TRUE
                      /\ build_error' = FALSE
                      /\ tmp_index' = f
                      /\ tmp' = t
                      /\ xlsx' = x
                      /\ zip' = ZipEntries(t, pdf_map)
                      /\ missing_pdfs_detail' = MissingPdfs(t, pdf_map)
                      /\ warnings' = Warnings(BadUuidRows(t), carnet_up,
                                              missing_pdfs_detail')
    /\ UNCHANGED <<xml_up, pdf_up, carnet_up, rows, df_index, df, edited, nedits,
                   pdoc, prec, normVars, sortVars>>

Next ==
    \/ Upload
    \/ EditDeleteRow
    \/ EditAddRow
    \/ EditSetFecha
    \/ EditSetLabel
    \/ Build

Spec == Init /\ [][Next]_vars

-----------------------------------------------------------------------------
(* parse_cfdi on its own, over a wider set of documents. *)

TrasladoPool ==
    { [Impuesto |-> "002", Importe |-> <<"0",".","1">>],
      [Impuesto |-> "2",   Importe |-> <<"0",".","2">>],
      [Impuesto |-> "002", Importe |-> <<"0",".","3">>],
      [Impuesto |-> "001", Importe |-> <<"5">>],
      [Impuesto |-> "002", Importe |-> <<"a","b","c">>],
      [Impuesto |-> "002", Importe |-> <<>>] }

ParseDocs ==
    { [wellformed |-> TRUE, ns |-> u, schemaLocation |-> loc,
       hasStamp |-> TRUE, UUID |-> Uuid1,
       hasEmisor |-> TRUE, Rfc |-> rfc[1], RfcEmisor |-> rfc[2],
       Moneda |-> <<>>, Total |-> <<"1","1","6",".","0","0">>,
       Fecha |-> [valid |-> TRUE, day |-> 1],
       Traslados |-> ts] :
         u \in {NsCfdi33, NsCfdi33Alt, NsCfdi40, NsCfdi40Alt},
         loc \in {<<>>, NsCfdi40},
         rfc \in {<<RfcA, <<>>>>, <<<<>>, RfcB>>},
         ts \in SeqsUpTo(TrasladoPool, MaxTraslados) }
    \cup {Malformed}

InitParse ==
    /\ InitPipe
    /\ pdoc \in ParseDocs
    /\ prec = NoRec
    /\ nname = NoNames
    /\ nkey = NoKeys
    /\ sfecha = <<>>
    /\ sindex = NoIndex

\* parse_cfdi is called on the document; it returns a dictionary or raises.
ParseDoc ==
    /\ ~prec.done
    /\ prec' = [raised |-> ParseRaises(pdoc), done |-> TRUE,
                row |-> IF ParseRaises(pdoc) THEN NoRec.row ELSE parse_cfdi(pdoc)]
    /\ UNCHANGED <<pdoc, pipeVars, normVars, sortVars>>

NextParse == ParseDoc

SpecParse == InitParse /\ [][NextParse]_vars

Parsed == prec.done /\ ~prec.raised

\* The other spelling of a namespace URI of the same schema version.
OtherSpelling(u) ==
    CASE u = NsCfdi33    -> NsCfdi33Alt
      [] u = NsCfdi33Alt -> NsCfdi33
      [] u = NsCfdi40    -> NsCfdi40Alt
      [] u = NsCfdi40Alt -> NsCfdi40

\* The entries of ts that count: Impuesto is "002" or "2" and Importe is
\* numeric (absent or empty counts as "0").
Matching(ts) ==
    SelectSeq(ts, LAMBDA t : /\ t.Impuesto \in {"002", "2"}
                              /\ IsNumeric(OrElse(t.Importe, <<"0">>)))

\* The sum of the Importe of the matching entries of ts, added up as floats
\* from 0.0 in document order.
RECURSIVE SumMatching(_)
SumMatching(ts) ==
    LET mt == Matching(ts)
        n  == Len(mt)
    IN  IF n = 0 THEN FloatZero(FALSE)
        ELSE CHOOSE v \in {FloatAdd(a, b) :
                             a \in {SumMatching(SubSeq(mt, 1, n - 1))},
                             b \in {FloatOf(OrElse(mt[n].Importe, <<"0">>))}} : TRUE

(* C9: for each schema version, a document is accepted in either spelling  *)
(* of the version's namespace URI: the issuer tax id and the IVA sum       *)
(* parse_cfdi extracts from it are those it extracts from the same         *)
(* document declared in the other spelling.                                *)
C9_BothSpellingsAccepted ==
    Parsed =>
        LET twin == parse_cfdi([pdoc EXCEPT !.ns = OtherSpelling(pdoc.ns)])
        IN  /\ prec.row.RFC_Emisor = twin.RFC_Emisor
            /\ prec.row.Total_Impuestos = twin.Total_Impuestos

(* C10: the tax amount of a parsed document is the sum of the Importe of   *)
(* exactly the entries whose Impuesto is "002" or "2", non-numeric Importe *)
(* skipped, and every permutation of the entries gives the same amount.    *)
(* The amount is a float and so is the sum: the Importe values added up in *)
(* document order.                                                         *)
C10_IvaIsSumOfMatching ==
    Parsed =>
        /\ prec.row.Total_Impuestos = SumMatching(pdoc.Traslados)
        /\ \A f \in Perms(Len(pdoc.Traslados)) :
             parse_cfdi([pdoc EXCEPT !.Traslados = Reindex(pdoc.Traslados, f)]).Total_Impuestos
               = prec.row.Total_Impuestos

\* For the documents whose namespace is the one parse_cfdi selects, the loop
\* does sum exactly the matching entries, in document order; the order
\* matters, as float addition rounds.
IvaIsSumWhereFound ==
    (Parsed /\ CfdiFound(pdoc)) =>
        prec.row.Total_Impuestos = SumMatching(pdoc.Traslados)

\* Order independence for the same documents: every permutation of the
\* entries gives the same amount.
IvaOrderIndependentWhereFound ==
    (Parsed /\ CfdiFound(pdoc)) =>
        \A f \in Perms(Len(pdoc.Traslados)) :
            parse_cfdi([pdoc EXCEPT !.Traslados = Reindex(pdoc.Traslados, f)]).Total_Impuestos
              = prec.row.Total_Impuestos

-----------------------------------------------------------------------------
(* Vocabulary of the properties. *)

Max(a, b) == IF a >= b THEN a ELSE b

\* l is the decimal numeral of i, padded with zeros to at least two digits.
IsOrdinalLabel(l, i) ==
    /\ l # <<>>
    /\ \A k \in 1..Len(l) : l[k] \in DigitChars
    /\ NatOfDigits(l) = i
    /\ Len(l) = Max(LabelWidth, Len(DecStr(i)))

\* The archive entries that are neither the spreadsheet nor the readme.
PdfEntryIdx == {k \in 1..Len(zip) : zip[k].name \notin {XlsxName, ReadmeName}}

\* The archive entries whose name is label l plus an extension.
EntriesFor(l) == {k \in PdfEntryIdx : SplitextStem(zip[k].name) = l}

\* Label l is listed in the report of rows left without a PDF.
ListedMissing(l) ==
    \E m \in 1..Len(missing_pdfs_detail) : missing_pdfs_detail[m].rownum = l

\* The uploads, by position, whose normalized key is k.
ScansWithKey(k) == {n \in 1..Len(pdf_up) : normalize_name(pdf_up[n].name) = k}

MinOf(S) == CHOOSE x \in S : \A y \in S : x <= y
MaxOf(S) == CHOOSE x \in S : \A y \in S : y <= x

\* The documents of the batch that parse, in upload order.
RECURSIVE Parsing(_)
Parsing(ups) ==
    IF ups = <<>> THEN <<>>
    ELSE (IF ParseRaises(ups[1].doc) THEN <<>> ELSE <<ups[1]>>) \o Parsing(Tail(ups))

\* The rows that carry no parse error, in order.
RECURSIVE WithoutError(_)
WithoutError(rs) ==
    IF rs = <<>> THEN <<>>
    ELSE (IF rs[1].Notas = "" THEN <<rs[1]>> ELSE <<>>) \o WithoutError(Tail(rs))

-----------------------------------------------------------------------------
(* Properties. *)

(* C1: at packaging, whatever the edits made to the review table, the      *)
(* labels of the spreadsheet and of the archive are the zero-padded        *)
(* ordinals 1..n of the final rows taken in ascending date order (rows     *)
(* without a date last); the label a row carried in the edited table is    *)
(* nowhere in the output unless it is the one freshly assigned.            *)
C1_LabelsAreFreshOrdinals ==
    built =>
        /\ Len(tmp) = Len(edited)
        /\ tmp_index \in Perms(Len(edited))
        /\ \A i \in 1..Len(tmp) :
             /\ tmp[i] = [edited[tmp_index[i]] EXCEPT !.No_VDR = tmp[i].No_VDR]
             /\ IsOrdinalLabel(tmp[i].No_VDR, i)
             /\ xlsx[i].No_VDR = tmp[i].No_VDR
        /\ \A i, j \in 1..Len(tmp) :
             i < j => FechaLeq(tmp[i].Fecha, tmp[j].Fecha)
        /\ \A k \in PdfEntryIdx :
             \E i \in 1..Len(tmp) : zip[k].name = tmp[i].No_VDR \o PdfExt
        /\ \A m \in 1..Len(missing_pdfs_detail) :
             \E i \in 1..Len(tmp) : missing_pdfs_detail[m].rownum = tmp[i].No_VDR

\* A build after edits in which a row's label in the edited table was
\* replaced, the rows were put in another order, and a PDF was archived.
C1_Witness ==
    /\ built
    /\ nedits > 0
    /\ \E i \in 1..Len(tmp) :
         /\ edited[tmp_index[i]].No_VDR # tmp[i].No_VDR
         /\ tmp_index[i] # i
    /\ PdfEntryIdx # {}
    /\ Len(tmp) # Len(df)

(* C4: the parse loop leaves exactly one record per uploaded document, in  *)
(* upload order; a document that fails to parse gives a record with its    *)
(* file name, the parse error, empty identifier and issuer tax id and zero *)
(* amounts; the records of the other documents are those the loop gives    *)
(* for the batch without the failing documents.                            *)
C4_OneRecordPerDocument ==
    /\ Len(rows) = Len(xml_up)
    /\ Len(df) = Len(xml_up)
    /\ \A i \in 1..Len(xml_up) :
         /\ rows[i].XML_FileName = xml_up[i].name
         /\ ParseRaises(xml_up[i].doc) =>
              /\ rows[i].Notas = "Parse error"
              /\ rows[i].UUID = <<>>
              /\ rows[i].RFC_Emisor = <<>>
              /\ rows[i].Total_Impuestos = FloatZero(FALSE)
              /\ rows[i].Total_Comprobante = FloatZero(FALSE)
         /\ ~ParseRaises(xml_up[i].doc) => rows[i].Notas = ""
    /\ WithoutError(rows) = ParseLoop(<<>>, Parsing(xml_up))

\* A batch in which a failing document comes before one that parses.
C4_Witness ==
    /\ Len(rows) = 2
    /\ ParseRaises(xml_up[1].doc)
    /\ ~ParseRaises(xml_up[2].doc)
    /\ rows[2].UUID # <<>>

\* In the upload script and in the build handler, on the tables the review
\* can hold, rows of equal date keep the order they had before the sort.
PipelineSortsKeepTies ==
    /\ \A i, j \in 1..Len(df_index) :
         (i < j /\ rows[df_index[i]].Fecha = rows[df_index[j]].Fecha)
             => df_index[i] < df_index[j]
    /\ built =>
         \A i, j \in 1..Len(tmp_index) :
            (i < j /\ edited[tmp_index[i]].Fecha = edited[tmp_index[j]].Fecha)
                => tmp_index[i] < tmp_index[j]

\* The normalized key of the structured-document file name of row r.
RecordKey(r) == normalize_name(Str(r.XML_FileName))

\* The scans, by position, whose key contains the lower-cased identifier of
\* row r or its first eight characters; none when the identifier is empty.
ScansContainingId(r) ==
    LET u == Lower(Str(OrEmpty(r.UUID)))
    IN  IF u = <<>> THEN {}
        ELSE {n \in 1..Len(pdf_up) :
                \/ Contains(normalize_name(pdf_up[n].name), u)
                \/ Contains(normalize_name(pdf_up[n].name), Prefix(u, ShortLen))}

\* The scans the stated matching order allows for row r: one whose key
\* equals the record's key; failing that the first whose key contains the
\* identifier; failing that none.
AllowedScans(r) ==
    IF ScansWithKey(RecordKey(r)) # {} THEN ScansWithKey(RecordKey(r))
    ELSE IF ScansContainingId(r) # {} THEN {MinOf(ScansContainingId(r))}
    ELSE {}

(* C2: the association of every record follows the stated order: a scan    *)
(* whose key equals the key of the record's XML file name; otherwise, for  *)
(* a non-empty identifier, the first scan in upload order whose key        *)
(* contains the identifier or its first 8 characters; otherwise none.      *)
(* Stated of the name shown at review and of the entry archived at build.  *)
C2_MatchingOrder ==
    /\ \A i \in 1..Len(df) :
         IF AllowedScans(df[i]) = {} THEN df[i].PDF_FileName = <<>>
         ELSE \E n \in AllowedScans(df[i]) :
                 df[i].PDF_FileName = Basename(pdf_up[n].name)
    /\ built =>
         \A i \in 1..Len(tmp) :
            IF AllowedScans(tmp[i]) = {} THEN EntriesFor(tmp[i].No_VDR) = {}
            ELSE \E k \in EntriesFor(tmp[i].No_VDR), n \in AllowedScans(tmp[i]) :
                    zip[k].data = pdf_up[n].data

\* The review half of C2 alone.
MatchingOrderAtReview ==
    \A i \in 1..Len(df) :
       IF AllowedScans(df[i]) = {} THEN df[i].PDF_FileName = <<>>
       ELSE \E n \in AllowedScans(df[i]) :
               df[i].PDF_FileName = Basename(pdf_up[n].name)

(* C3 as stated: every row of the build with label L has either exactly    *)
(* one archive entry, named L plus the extension of the scan whose bytes   *)
(* it holds, or no entry and L in the missing report; the spreadsheet row  *)
(* carries the same L.                                                     *)
C3_EntryNamedWithScanExtension ==
    built =>
        \A i \in 1..Len(tmp) :
           LET L == tmp[i].No_VDR
           IN  /\ xlsx[i].No_VDR = L
               /\ \/ /\ Cardinality(EntriesFor(L)) = 1
                     /\ ~ListedMissing(L)
                     /\ \E k \in EntriesFor(L), n \in 1..Len(pdf_up) :
                          /\ zip[k].data = pdf_up[n].data
                          /\ zip[k].name = L \o SplitextExt(Basename(pdf_up[n].name))
                  \/ /\ EntriesFor(L) = {}
                     /\ ListedMissing(L)

(* C3 amended: the entry is named L plus ".pdf", whatever the case of the  *)
(* scan's own extension; the rest as stated, and the archive is complete   *)
(* (spreadsheet first, readme last) in both cases.                         *)
C3_EntryNamedLabelDotPdf ==
    built =>
        /\ zip[1].name = XlsxName
        /\ zip[Len(zip)].name = ReadmeName
        /\ Cardinality(PdfEntryIdx) = Len(zip) - 2
        /\ \A i \in 1..Len(tmp) :
             LET L == tmp[i].No_VDR
             IN  /\ xlsx[i].No_VDR = L
                 /\ \/ /\ Cardinality(EntriesFor(L)) = 1
                       /\ ~ListedMissing(L)
                       /\ \E k \in EntriesFor(L), n \in 1..Len(pdf_up) :
                            /\ zip[k].data = pdf_up[n].data
                            /\ zip[k].name = L \o PdfExt
                    \/ /\ EntriesFor(L) = {}
                       /\ ListedMissing(L)

\* A build with one row archived from a scan named ".PDF" and one row
\* reported missing.
C3_Witness ==
    /\ built
    /\ \E i, j \in 1..Len(tmp) :
         /\ ListedMissing(tmp[i].No_VDR)
         /\ \E k \in EntriesFor(tmp[j].No_VDR), n \in 1..Len(pdf_up) :
              /\ zip[k].data = pdf_up[n].data
              /\ SplitextExt(pdf_up[n].name) # PdfExt

(* C5: with the table and the scans unchanged between review and build,    *)
(* the scan archived for each record is the one shown for it at review,    *)
(* and a record shown without a scan gets no entry.                        *)
C5_BuildAssociationIsReviewAssociation ==
    (built /\ nedits = 0) =>
        \A i \in 1..Len(tmp) :
           \/ /\ tmp[i].PDF_FileName = <<>>
              /\ EntriesFor(tmp[i].No_VDR) = {}
           \/ /\ tmp[i].PDF_FileName # <<>>
              /\ \E k \in EntriesFor(tmp[i].No_VDR), n \in 1..Len(pdf_up) :
                   /\ Basename(pdf_up[n].name) = tmp[i].PDF_FileName
                   /\ zip[k].data = pdf_up[n].data

\* C5 for the records whose XML file name has a single ".": there the two
\* computations of the stem agree.
AssociationAgreesForSingleDotNames ==
    (built /\ nedits = 0) =>
        \A i \in 1..Len(tmp) :
           (Cardinality({c \in 1..Len(tmp[i].XML_FileName) : tmp[i].XML_FileName[c] = "."}) <= 1)
           => \/ /\ tmp[i].PDF_FileName = <<>>
                 /\ EntriesFor(tmp[i].No_VDR) = {}
              \/ /\ tmp[i].PDF_FileName # <<>>
                 /\ \E k \in EntriesFor(tmp[i].No_VDR), n \in 1..Len(pdf_up) :
                      /\ Basename(pdf_up[n].name) = tmp[i].PDF_FileName
                      /\ zip[k].data = pdf_up[n].data

(* C6 as stated: of several scans with the same key, the first in upload   *)
(* order is the one shown at review and archived at build.                 *)
C6_FirstDuplicateWins ==
    /\ \A i \in 1..Len(df) :
         ScansWithKey(RecordKey(df[i])) # {} =>
            df[i].PDF_FileName
              = Basename(pdf_up[MinOf(ScansWithKey(RecordKey(df[i])))].name)
    /\ built =>
         \A k \in PdfEntryIdx : \A n \in 1..Len(pdf_up) :
            zip[k].data = pdf_up[n].data =>
               zip[k].data
                 = pdf_up[MinOf(ScansWithKey(normalize_name(pdf_up[n].name)))].data

(* C6 amended: of several scans with the same key, the last in upload      *)
(* order is the one shown at review and archived at build; keys are tried  *)
(* in the order in which they were first uploaded.                         *)
C6_LastDuplicateWins ==
    /\ \A i \in 1..Len(df) :
         /\ ScansWithKey(RecordKey(df[i])) # {} =>
              df[i].PDF_FileName
                = Basename(pdf_up[MaxOf(ScansWithKey(RecordKey(df[i])))].name)
         /\ (ScansWithKey(RecordKey(df[i])) = {} /\ ScansContainingId(df[i]) # {}) =>
              LET first == MinOf(ScansContainingId(df[i]))
              IN  df[i].PDF_FileName
                    = Basename(pdf_up[MaxOf(ScansWithKey(normalize_name(pdf_up[first].name)))].name)
    /\ built =>
         \A k \in PdfEntryIdx : \A n \in 1..Len(pdf_up) :
            zip[k].data = pdf_up[n].data =>
               zip[k].data
                 = pdf_up[MaxOf(ScansWithKey(normalize_name(pdf_up[n].name)))].data

\* Two scans with the same key and different bytes, the record matching the
\* key shown with and archived from the second.
C6_Witness ==
    /\ built
    /\ Len(pdf_up) = 2
    /\ normalize_name(pdf_up[1].name) = normalize_name(pdf_up[2].name)
    /\ pdf_up[1].data # pdf_up[2].data
    /\ \E i \in 1..Len(df) : df[i].PDF_FileName = Basename(pdf_up[2].name)
    /\ \E k \in PdfEntryIdx : zip[k].data = pdf_up[2].data

(* C7 as stated: a build with no scan uploaded is a hard stop that         *)
(* produces no archive.                                                    *)
C7_NoScansIsHardStop ==
    (built /\ pdf_up = <<>>) => zip = <<>>

(* C7 amended: a build with no scan uploaded completes like any other: the *)
(* archive holds the spreadsheet and the readme and nothing else, the      *)
(* spreadsheet has its rows, and every row is reported as missing its PDF; *)
(* with scans uploaded the archive is written as well. The one way a build *)
(* fails has nothing to do with scans: an amount of the table that is not  *)
(* a finite number cannot be written to the spreadsheet.                   *)
C7_NoScansBuildCompletes ==
    /\ built =>
          /\ Len(zip) >= 2
          /\ zip[1] = [name |-> XlsxName, data |-> "xlsx_bytes"]
          /\ zip[Len(zip)] = [name |-> ReadmeName, data |-> "readme"]
          /\ Len(xlsx) = Max(1, Len(tmp))
          /\ pdf_up = <<>> =>
               /\ Len(zip) = 2
               /\ Len(missing_pdfs_detail) = Len(tmp)
               /\ \A i \in 1..Len(tmp) : ListedMissing(tmp[i].No_VDR)
    /\ build_error =>
          \E i \in 1..Len(edited) :
              edited[i].Total_Impuestos.cls \in {"nan", "inf"}

\* A build of two records with no scan uploaded.
C7_Witness ==
    /\ built
    /\ pdf_up = <<>>
    /\ Len(tmp) = 2
    /\ Len(zip) = 2

\* The handler ends in an exception exactly when an amount of the table
\* is a NaN or an infinity once converted: a row added in the editor whose
\* Total_Impuestos was left unfilled does it.
BuildRaisesOnUnwritableAmount ==
    /\ build_error =>
          /\ ~built /\ zip = <<>> /\ xlsx = <<>> /\ warnings = <<>>
          /\ \E i \in 1..Len(edited) :
               edited[i].Total_Impuestos.cls \in {"nan", "inf"}
    /\ built =>
          \A i \in 1..Len(xlsx) :
              /\ xlsx[i].Total_Impuestos.cls = "finite"
              /\ xlsx[i].Total_Comprobante.cls = "finite"

\* The warnings of a build come in the order identifiers, carnet, missing
\* PDFs, and the carnet warning is there exactly when a carnet file of more
\* than CarnetLimit bytes is in the uploader.
WarningsInOrder ==
    built =>
        /\ \A i, j \in 1..Len(warnings) :
             i < j => <<warnings[i].kind, warnings[j].kind>> \in
                        { <<"UUID not 36 chars", "Carnet PDF over 3 MB">>,
                          <<"UUID not 36 chars", "Missing matching PDF">>,
                          <<"Carnet PDF over 3 MB", "Missing matching PDF">> }
        /\ (\E i \in 1..Len(warnings) : warnings[i].kind = "Carnet PDF over 3 MB")
             <=> (carnet_up.present /\ carnet_up.size > CarnetLimit)

-----------------------------------------------------------------------------
(* normalize_name on its own, over the spellings of one file name. *)

\* Spellings of the word: with the ring above the second letter (composed,
\* decomposed, capitals) and without it.
WordsAccented ==
    { <<"F","U+00E5","c","t","u","r","a">>,
      <<"F","a","U+030A","c","t","u","r","a">>,
      <<"F","U+00C5","C","T","U","R","A">> }

WordsPlain ==
    { <<"f","a","c","t","u","r","a">>,
      <<"F","a","c","t","u","r","a">>,
      <<"F","A","C","T","U","R","A">> }

\* Runs of punctuation and spaces between the word and the number.
Separators ==
    { <<" ">>, <<"-">>, <<"_">>, <<" ","-"," ">>, <<" "," ">> }

Extensions ==
    { <<".","p","d","f">>, <<".","P","D","F">>, <<".","x","m","l">> }

\* The file names: they differ from each other only in letter case, in the
\* accent, in the separator run and in the extension.
NormNames ==
    { w \o sp \o <<"0","0","1">> \o ext :
        w \in WordsAccented \cup WordsPlain, sp \in Separators, ext \in Extensions }

InitNorm ==
    /\ InitPipe
    /\ pdoc = NoDoc
    /\ prec = NoRec
    /\ nname \in NormNames \X NormNames
    /\ nkey = NoKeys
    /\ sfecha = <<>>
    /\ sindex = NoIndex

\* normalize_name is called on each of the two names.
Normalize ==
    /\ ~nkey.done
    /\ nkey' = [done |-> TRUE,
                key |-> <<normalize_name(nname[1]), normalize_name(nname[2])>>]
    /\ UNCHANGED <<nname, pipeVars, parseVars, sortVars>>

NextNorm == Normalize

SpecNorm == InitNorm /\ [][NextNorm]_vars

\* Whether a name carries the accent: the composed letter or the combining ring.
Accented(n) ==
    \E i \in 1..Len(n) : n[i] \in {"U+00E5", "U+00C5", "U+030A"}

KeyPlain == <<"f","a","c","t","u","r","a","-","0","0","1">>
KeyAccented == <<"f","-","c","t","u","r","a","-","0","0","1">>

NormalizeIdempotentOnKeys ==
    nkey.done => \A k \in 1..2 : normalize_name(nkey.key[k]) = nkey.key[k]

-----------------------------------------------------------------------------
(* sort_values on its own: the sort of the upload script (line 326) and of  *)
(* the build handler (line 386), applied to tables of up to MaxSortRows     *)
(* rows.                                                                    *)

MaxSortRows == 18

\* A Fecha column of n rows that all carry day d, but for row k (none when
\* k = 0), which carries e.
FechaColumn(n, d, k, e) == [i \in 1..n |-> [Fecha |-> IF i = k THEN e ELSE d]]

\* The tables sorted: batches of one day (the epoch sentinel or the day
\* after it) in which at most one row has another date or none.
SortTables ==
    {FechaColumn(n, d, k, e) :
        n \in 0..MaxSortRows, d \in {Epoch, Epoch + 1}, k \in 0..MaxSortRows,
        e \in {Epoch, Epoch + 1, Epoch + 2, NaT}}

InitSort ==
    /\ InitPipe
    /\ pdoc = NoDoc
    /\ prec = NoRec
    /\ nname = NoNames
    /\ nkey = NoKeys
    /\ sfecha \in SortTables
    /\ sindex = NoIndex

\* The table is sorted by Fecha.
SortTable ==
    /\ ~sindex.done
    /\ sindex' = [done |-> TRUE, f |-> sort_values(sfecha)]
    /\ UNCHANGED <<sfecha, pipeVars, parseVars, normVars>>

NextSort == SortTable

SpecSort == InitSort /\ [][NextSort]_vars

\* Rows i < j of the sorted table that carry the same date were in that
\* order before the sort.
TiesKeepOrder(t, f) ==
    \A i, j \in 1..Len(f) :
        (i < j /\ t[f[i]].Fecha = t[f[j]].Fecha) => f[i] < f[j]

(* C8: sequencing is a stable sort by date: two records with the same date *)
(* (the epoch sentinel included) keep the relative order they had in the   *)
(* input, whatever the number of records, in the first sequencing and in   *)
(* the re-sequencing of the build, which are the same call of sort_values. *)
C8_SortIsStable ==
    sindex.done => TiesKeepOrder(sfecha, sindex.f)

\* The sorted index is a permutation of the rows, ascending by date with the
\* missing dates last.
SortIsAscending ==
    sindex.done =>
        /\ sindex.f \in Perms(Len(sfecha))
        /\ \A i, j \in 1..Len(sfecha) :
             i < j => FechaLeq(sfecha[sindex.f[i]].Fecha, sfecha[sindex.f[j]].Fecha)

\* A table whose rows of present date number at most SMALL_QUICKSORT + 1 is
\* sorted by insertion alone, and its ties keep their order.
SortIsStableUnderPartitionSize ==
    (sindex.done /\ Len(non_nan_idx(sfecha)) <= SMALL_QUICKSORT + 1)
        => TiesKeepOrder(sfecha, sindex.f)

\* Eighteen rows of one day: the partition leaves the first and the last
\* two rows in place and reverses the fifteen rows between them.
EighteenOfOneDay ==
    /\ sindex.done
    /\ sfecha = FechaColumn(18, Epoch + 1, 0, NaT)
    /\ sindex.f = <<1, 16, 15, 14, 13, 12, 11, 10, 9, 8, 7, 6, 5, 4, 3, 2, 17, 18>>

====
